---- MODULE Spec2Model ----
(***************************************************************************)
(* Verification model of the finances app (Oltee10/finances-app).          *)
(*                                                                         *)
(* The module holds several specifications over one set of variables:      *)
(*   SpecBalance   the pure balance calculator (services/transactions.ts)  *)
(*   SpecLedger    one account's transaction sub-collection, the live      *)
(*                 subscription of the account-details screen and the      *)
(*                 point read used for the home screen                     *)
(*   SpecAccounts  account creation, invite codes and joining              *)
(*                 (services/accounts.ts) against the backend rules        *)
(*   SpecStore     transaction writes/reads, the cascade deletion of an    *)
(*                 account and the access rules                            *)
(*   SpecFilter, SpecFilterScreens, SpecSort, SpecFormat                   *)
(*                 the transaction list's filters and sort, the filter     *)
(*                 screen, and the amount formatting                       *)
(*   SpecJoin      concurrent joins of one account                         *)
(*   SpecJoinCode  the join code from creation to the details screen       *)
(*   SpecAuth      the auth context, its calls and the route guard         *)
(*                 (SpecAuthFair: with the guard's effect always run)      *)
(*   SpecFeed      the reads and live queries of one device                *)
(*                                                                         *)
(* Amounts are integers (minor units); IEEE-754 rounding of fractional     *)
(* amounts is not represented.                                             *)
(***************************************************************************)
EXTENDS Integers, Sequences, FiniteSets, TLC

VARIABLES
    \* ---- SpecBalance: one evaluation of calculateBalance -----------------
    balInput,       \* the Transaction[] handed to calculateBalance
    balSplit,       \* where the list was cut into a prefix A and a suffix B
    balWhole,       \* calculateBalance(A ++ B)
    balLeft,        \* calculateBalance(A)
    balRight,       \* calculateBalance(B)
    balPc,          \* "start" | "done"
    \* ---- SpecLedger: one account's sub-collection and its two readers ----
    ledgerDocs,         \* accounts/{id}/transactions, in creation order
    ledgerClock,        \* the server's clock (serverTimestamp)
    screenTransactions, \* AccountDetailsScreen: useState transactions
    screenBalance,      \* AccountDetailsScreen: useState balance
    \* ---- SpecAccounts / SpecStore: the backend and the users' sessions ----
    rulesEnforced,      \* the backend evaluates the documented security rules
    accounts,           \* collection accounts: document id -> document
    call,               \* per signed-in user: the service call in flight
    transactionDocs,    \* the transactions sub-collections: document id -> document
    nextTxId,           \* how many transaction documents were ever added, plus 1
    \* ---- SpecFilter / SpecSort / SpecFilterScreens: the transaction list ---
    pipeTransactions,   \* TransactionsScreen: useState transactions
    pipeAccountType,    \* TransactionsScreen: account?.type
    pipeFilters,        \* TransactionsScreen: the filter states and sortOrder
    pipeFiltered,       \* filteredTransactions before filtered.sort(...)
    pipeSorted,         \* filteredTransactions as returned by the memo
    pipePc,             \* "start" | "done"
    panelFilters,       \* TransactionsFilterScreen: its filter states, or closed
    savedFilters,       \* AsyncStorage item filters_{accountId}
    \* ---- SpecFormat: the amount field of the add and edit screens --------
    fmtScreen,          \* "add" | "edit": whose formatCurrencyInput runs
    fmtCurrency,        \* useState currency (the account's currency)
    fmtValue,           \* the string handed to formatCurrencyInput first
    fmtStored,          \* edit screen: transactionData.amount, or Null
    fmtFirst,           \* amount / amountRaw after the first handler
    fmtAgain,           \* amount / amountRaw after amount was passed back
    fmtPc,              \* "start" | "formatted" | "reparsed"
    \* ---- SpecAuth: the auth context, its listener and the route guard ----
    authAccounts,       \* Firebase Auth: the usernames that are registered
    authCurrent,        \* Firebase Auth: auth.currentUser, or Null
    userDocs,           \* collection users: the ids that have a document
    authEvents,         \* auth state changes not yet given to the listener
    authHandlers,       \* listener callbacks awaiting loadUserFromFirestore
    ctxUser,            \* AuthProvider: useState user, or Null
    ctxLoading,         \* AuthProvider: useState loading
    ctxError,           \* AuthProvider: useState error is set
    authCall,           \* the login / register / logout call in flight
    authCalls,          \* how many such calls were started
    route,              \* the route shown: segments[0]
    \* ---- SpecFeed: the reads and live queries of one device ---------------
    feedListener,       \* subscribeToUserAccounts: the listener and its userId
    feedSeen,           \* the documents of the last snapshot it was sent
    feedSnapshots,      \* how many snapshots it was sent
    feedHandlers,       \* snapshot handlers awaiting their balance reads
    homeDelivered,      \* HomeScreen: the calls of its callback and the last list
    txListener,         \* subscribeToAccountTransactions: the listener
    txDelivered,        \* the calls of its callback and the last list
    listed              \* getUserAccounts: the call and what it returned

balVars == <<balInput, balSplit, balWhole, balLeft, balRight, balPc>>

ledgerVars == <<ledgerDocs, ledgerClock, screenTransactions, screenBalance>>

storeVars == <<transactionDocs, nextTxId>>

backendVars == <<rulesEnforced, accounts, call, storeVars>>

pipeVars == <<pipeTransactions, pipeAccountType, pipeFilters, pipeFiltered,
              pipeSorted, pipePc>>

panelVars == <<panelFilters, savedFilters>>

fmtVars == <<fmtScreen, fmtCurrency, fmtValue, fmtStored, fmtFirst, fmtAgain,
             fmtPc>>

authVars == <<authAccounts, authCurrent, userDocs, authEvents, authHandlers,
              ctxUser, ctxLoading, ctxError, authCall, authCalls, route>>

feedVars == <<feedListener, feedSeen, feedSnapshots, feedHandlers,
              homeDelivered, txListener, txDelivered, listed>>

sessionVars == <<authVars, feedVars>>

uiVars == <<pipeVars, panelVars, fmtVars, sessionVars>>

vars == <<balVars, ledgerVars, backendVars, uiVars>>

(***************************************************************************)
(* Bounds of the model.                                                    *)
(***************************************************************************)
MaxLen == 3         \* longest list handed to the pure functions
MaxAmount == 2      \* largest amount of a transaction (minor units)
MaxOverLimit == 1   \* SpecLedger: documents stored beyond the listener's limit
MaxVaried == 1      \* SpecLedger: documents other than an INCOME of amount 1
NumUsers == 2       \* signed-in users
MaxAccounts == 2    \* documents the accounts collection can hold
MaxTx == 2          \* SpecStore: transaction documents ever added
MaxStoreAccounts == 1 \* SpecStore: account ids the screens are opened on
MaxStoreAmount == 1 \* SpecStore: amounts passed are -MaxStoreAmount..MaxStoreAmount
NumCodes == 2       \* distinct outcomes of the six Math.random() draws
MaxPipeLen == 2     \* SpecFilter: longest list handed to the filter stage
MaxCriteria == 2    \* SpecFilter: filter criteria set at the same time
DayMillis == 2      \* milliseconds in a day on the model's clock
MaxPanelCriteria == 1 \* SpecFilterScreens: criteria set on the filter screen
MaxFormatLen == 4   \* SpecFormat: longest string typed into the amount field
MaxAuthCalls == 3   \* SpecAuth: login, register and logout calls started
MaxSnapshots == 2   \* SpecFeed: snapshots sent to the accounts listener

(***************************************************************************)
(* Program constants.                                                      *)
(***************************************************************************)
DefaultLimitCount == 50     \* subscribeToAccountTransactions: limitCount = 50
InviteCodeLength == 6       \* generateinviteCode: for (let i = 0; i < 6; i++)
maxAttempts == 10           \* generateUniqueinviteCode: const maxAttempts = 10

UserNames == <<"u1", "u2", "u3", "u4">>
Users == {UserNames[i] : i \in 1..NumUsers}
AccountIds == 1..MaxAccounts

(***************************************************************************)
(* The state of each part before anything has happened in it; a            *)
(* specification starts the parts it does not exercise in this state.      *)
(***************************************************************************)
BalanceIdle ==
    /\ balInput = <<>>
    /\ balSplit = 0
    /\ balWhole = 0
    /\ balLeft = 0
    /\ balRight = 0
    /\ balPc = "start"

LedgerIdle ==
    /\ ledgerDocs = <<>>
    /\ ledgerClock = 1
    /\ screenTransactions = <<>>
    /\ screenBalance = 0

NoCode == <<>>      \* a document without the inviteCode field

\* A session with no call in flight.  The fields are the arguments and the
\* locals of the service calls: type, userId, accountId, code, attempts of
\* createAccount and the joins; amount, txId of the transaction calls; read,
\* the ids of the transaction documents a read returned.
IdleCall ==
    [op |-> "none", pc |-> "idle", type |-> "", userId |-> "", accountId |-> 0,
     code |-> NoCode, attempts |-> 0, nonMember |-> FALSE,
     amount |-> 0, txId |-> 0, read |-> {}]

BackendIdle ==
    /\ rulesEnforced = FALSE
    /\ accounts = <<>>
    /\ call = [u \in Users |-> IdleCall]
    /\ transactionDocs = <<>>
    /\ nextTxId = 1

Null == <<>>        \* null / undefined of an optional value
Some(v) == <<v>>    \* an optional value that is present

\* TransactionsScreen: the initial useState values of the filters.
DefaultFilters ==
    [filterType |-> "ALL", filterCategory |-> "ALL", filterUserId |-> "ALL",
     filterMinAmount |-> Null, filterMaxAmount |-> Null,
     filterStartDate |-> Null, filterEndDate |-> Null, sortOrder |-> "newest"]

\* TransactionsFilterScreen: the initial useState values of the filters.
DefaultPanelFilters ==
    [filterType |-> "ALL", filterCategory |-> "ALL", filterUserId |-> "ALL",
     filterMinAmount |-> Null, filterMaxAmount |-> Null,
     filterStartDate |-> Null, filterEndDate |-> Null,
     filterPaymentMethod |-> "ALL"]

PipeIdle ==
    /\ pipeTransactions = <<>>
    /\ pipeAccountType = "INDIVIDUAL"
    /\ pipeFilters = DefaultFilters
    /\ pipeFiltered = <<>>
    /\ pipeSorted = <<>>
    /\ pipePc = "start"

PanelIdle ==
    /\ panelFilters = Null
    /\ savedFilters = Null

\* Both screens start with amount '' and amountRaw 0.
NoResult == [formatted |-> <<>>, raw |-> 0]

FormatIdle ==
    /\ fmtScreen = "add"
    /\ fmtCurrency = "EUR"
    /\ fmtValue = <<>>
    /\ fmtStored = Null
    /\ fmtFirst = NoResult
    /\ fmtAgain = NoResult
    /\ fmtPc = "start"

\* A call of the auth context: login, register or logout.  userDoc is what
\* its loadUserFromFirestore returned.
NoAuthCall == [op |-> "none", pc |-> "done", username |-> "", userDoc |-> <<>>]

AuthIdle ==
    /\ authAccounts = {}
    /\ authCurrent = <<>>
    /\ userDocs = {}
    /\ authEvents = <<>>
    /\ authHandlers = {}
    /\ ctxUser = <<>>
    /\ ctxLoading = TRUE
    /\ ctxError = FALSE
    /\ authCall = NoAuthCall
    /\ authCalls = 0
    /\ route = "login"

\* Nothing was delivered to a callback yet: `from` is the snapshot the list
\* was computed from, 0 for none.
NothingDelivered == [calls |-> 0, from |-> 0, list |-> <<>>]

NoListener == [status |-> "none", userId |-> "", accountId |-> 0]

NotListed == [pc |-> "idle", userId |-> "", docs |-> {}, result |-> <<>>]

FeedIdle ==
    /\ feedListener = NoListener
    /\ feedSeen = <<>>
    /\ feedSnapshots = 0
    /\ feedHandlers = {}
    /\ homeDelivered = NothingDelivered
    /\ txListener = NoListener
    /\ txDelivered = NothingDelivered
    /\ listed = NotListed

SessionIdle == AuthIdle /\ FeedIdle

UiIdle == PipeIdle /\ PanelIdle /\ FormatIdle /\ SessionIdle

(***************************************************************************)
(* types.ts                                                                *)
(***************************************************************************)
TransactionType == {"INCOME", "EXPENSE"}
AccountType == {"INDIVIDUAL", "GROUP"}

\* A value of `type` outside the TypeScript union, as legacy or foreign
\* documents may carry: calculateBalance has a fall-through for it.
OtherType == "TRANSFER"

Range(s) == {s[i] : i \in 1..Len(s)}

(***************************************************************************)
(* services/transactions.ts: calculateBalance                              *)
(***************************************************************************)
\* Mutant: the EXPENSE branch adds instead of subtracting.
BalanceStepSignSlip(balance, transaction) ==
    IF transaction.type = "INCOME" THEN balance + transaction.amount
    ELSE IF transaction.type = "EXPENSE" THEN balance + transaction.amount
    ELSE balance

\* Mutant: the INCOME branch returns the amount and drops the accumulator.
BalanceStepDropsAccumulator(balance, transaction) ==
    IF transaction.type = "INCOME" THEN transaction.amount
    ELSE IF transaction.type = "EXPENSE" THEN balance - transaction.amount
    ELSE balance

\* The reducer callback.
BalanceStep(balance, transaction) ==
    IF transaction.type = "INCOME" THEN balance + transaction.amount
    ELSE IF transaction.type = "EXPENSE" THEN balance - transaction.amount
    ELSE balance

\* Array.prototype.reduce with an initial value: a left fold from index i.
RECURSIVE Reduce(_, _, _)
Reduce(transactions, i, balance) ==
    IF i > Len(transactions) THEN balance
    ELSE Reduce(transactions, i + 1, BalanceStep(balance, transactions[i]))

calculateBalance(transactions) == Reduce(transactions, 1, 0)

(***************************************************************************)
(* services/transactions.ts: the documents and the live subscription       *)
(***************************************************************************)
NoDate == 0     \* a document without `date`: a.date?.toMillis() || 0

Abs(x) == IF x < 0 THEN -x ELSE x

\* createTransaction: the document handed to addDoc.  `serverNow` is what
\* serverTimestamp() resolves to.  category, paymentMethod, note and
\* createdAt play no part in the balance and are left out.
NewTransaction(transactionData, userId, serverNow) ==
    [accountId |-> transactionData.accountId,
     userId |-> userId,
     type |-> transactionData.type,
     amount |-> Abs(transactionData.amount),
     date |-> IF transactionData.date = NoDate THEN serverNow
              ELSE transactionData.date]

\* a.date?.toMillis() || 0
DateMillis(transaction) == transaction.date

\* One insertion of a stable sort under the comparator (a, b) => bDate - aDate:
\* x, which follows the elements of `sorted` in the input, goes in front of
\* the first element the comparator orders behind it.
RECURSIVE InsertByDateDesc(_, _)
InsertByDateDesc(sorted, x) ==
    IF sorted = <<>> THEN <<x>>
    ELSE IF DateMillis(x) - DateMillis(Head(sorted)) > 0
         THEN <<x>> \o sorted
         ELSE <<Head(sorted)>> \o InsertByDateDesc(Tail(sorted), x)

\* transactions.sort((a, b) => bDate - aDate): a stable sort, date descending.
RECURSIVE SortFrom(_, _, _)
SortFrom(transactions, i, sorted) ==
    IF i > Len(transactions) THEN sorted
    ELSE SortFrom(transactions, i + 1, InsertByDateDesc(sorted, transactions[i]))

SortByDateDesc(transactions) == SortFrom(transactions, 1, <<>>)

\* transactions.slice(0, limitCount)
Slice(s, limitCount) ==
    SubSeq(s, 1, IF Len(s) < limitCount THEN Len(s) ELSE limitCount)

\* The list the onSnapshot handler of subscribeToAccountTransactions hands to
\* its callback for the documents `docs`: map, sort by date descending, slice.
SnapshotTransactions(docs, limitCount) ==
    Slice(SortByDateDesc(docs), limitCount)

(***************************************************************************)
(* services/accounts.ts: calculateAccountBalance                           *)
(***************************************************************************)
\* querySnapshot.forEach over all documents of the sub-collection.
RECURSIVE ForEachBalance(_, _, _)
ForEachBalance(docs, i, balance) ==
    IF i > Len(docs) THEN balance
    ELSE ForEachBalance(docs, i + 1,
            IF docs[i].type = "INCOME" THEN balance + docs[i].amount
            ELSE IF docs[i].type = "EXPENSE" THEN balance - docs[i].amount
            ELSE balance)

calculateAccountBalance(docs) == ForEachBalance(docs, 1, 0)

(***************************************************************************)
(* SpecLedger: a member records transactions in one account while the      *)
(* account-details screen listens to the sub-collection.                   *)
(***************************************************************************)
IsPlain(doc) == doc.type = "INCOME" /\ doc.amount = 1

\* handleCreateTransaction -> createTransaction -> addDoc, by a member of the
\* account; the add screen always passes date: serverTimestamp().
LedgerCreateTransaction ==
    /\ Len(ledgerDocs) < DefaultLimitCount + MaxOverLimit
    /\ \E type \in TransactionType, amount \in 1..MaxAmount :
        LET doc == NewTransaction(
                    [accountId |-> 1, type |-> type, amount |-> amount,
                     date |-> NoDate], "u1", ledgerClock)
            docs == Append(ledgerDocs, doc)
        IN  /\ Cardinality({i \in 1..Len(docs) : ~IsPlain(docs[i])}) <= MaxVaried
            /\ ledgerDocs' = docs
    /\ ledgerClock' = ledgerClock + 1
    /\ UNCHANGED <<screenTransactions, screenBalance, balVars, backendVars, uiVars>>

\* The listener of AccountDetailsScreen receives the current documents:
\* setTransactions(newTransactions); setBalance(calculateBalance(newTransactions)).
LedgerSnapshot ==
    LET newTransactions == SnapshotTransactions(ledgerDocs, DefaultLimitCount)
    IN  /\ screenTransactions' = newTransactions
        /\ screenBalance' = calculateBalance(newTransactions)
        /\ UNCHANGED <<ledgerDocs, ledgerClock, balVars, backendVars, uiVars>>

InitLedger ==
    /\ LedgerIdle
    /\ BalanceIdle
    /\ BackendIdle
    /\ UiIdle

NextLedger ==
    \/ LedgerCreateTransaction
    \/ LedgerSnapshot

SpecLedger == InitLedger /\ [][NextLedger]_vars

\* The screen shows the snapshot of the documents stored now.
ScreenUpToDate ==
    screenTransactions = SnapshotTransactions(ledgerDocs, DefaultLimitCount)

\* C2: for any number of stored transactions, the balance the account-details
\* screen derives from its live subscription equals the signed sum over all
\* transactions stored for the account, the value calculateAccountBalance
\* computes for the home screen from the same stored state.
C2_ScreenBalanceIsStoredBalance ==
    ScreenUpToDate => screenBalance = calculateAccountBalance(ledgerDocs)

(***************************************************************************)
(* FIRESTORE_SECURITY_RULES.md: the rules of the accounts collection.      *)
(* `uid` is request.auth.uid of a signed-in user, `resource` the stored    *)
(* document and `requestResource` the document after the write.            *)
(***************************************************************************)
Members(doc) == Range(doc.memberIds)

\* allow read: if request.auth.uid in resource.data.memberIds
AllowAccountRead(uid, resource) == uid \in Members(resource)

\* allow create
AllowAccountCreate(uid, requestResource) ==
    /\ requestResource.ownerId = uid
    /\ uid \in Members(requestResource)
    /\ requestResource.type \in AccountType

\* allow update
AllowAccountUpdate(uid, resource, requestResource) ==
    /\ uid = resource.ownerId
    /\ uid \in Members(resource)
    /\ uid \in Members(requestResource)
    /\ resource.ownerId = requestResource.ownerId

\* allow delete
AllowAccountDelete(uid, resource) == resource.ownerId = uid

\* A request passes when the backend does not evaluate the rules or the
\* rule allows it.
Permitted(allowed) == ~rulesEnforced \/ allowed

(***************************************************************************)
(* services/accounts.ts                                                    *)
(***************************************************************************)
chars ==
    <<"A", "B", "C", "D", "E", "F", "G", "H", "I", "J", "K", "L", "M",
      "N", "O", "P", "Q", "R", "S", "T", "U", "V", "W", "X", "Y", "Z",
      "0", "1", "2", "3", "4", "5", "6", "7", "8", "9">>

\* chars.charAt(index), index counted from 0
charAt(index) == chars[index + 1]

\* The value of Math.floor(Math.random() * chars.length) in the i-th pass
\* (i from 0) of the k-th outcome of the random source.
RandomIndex(k, i) == (7 * (k - 1) + 11 * i) % Len(chars)

\* Mutant: the loop starts at 1 and makes one pass too few.
RECURSIVE CodeLoopFromOne(_, _, _)
CodeLoopFromOne(k, i, code) ==
    IF i + 1 < InviteCodeLength
    THEN CodeLoopFromOne(k, i + 1, Append(code, charAt(RandomIndex(k, i))))
    ELSE code

\* for (let i = 0; i < 6; i++) code += chars.charAt(...)
RECURSIVE CodeLoop(_, _, _)
CodeLoop(k, i, code) ==
    IF i < InviteCodeLength
    THEN CodeLoop(k, i + 1, Append(code, charAt(RandomIndex(k, i))))
    ELSE code

generateinviteCode(k) == CodeLoop(k, 0, <<>>)

\* Mutant: memberIds starts empty.
NewAccountWithoutMember(type, userId, inviteCode) ==
    [type |-> type, ownerId |-> userId, memberIds |-> <<>>,
     inviteCode |-> inviteCode]

\* createAccount: the document handed to addDoc (name, currency and the
\* timestamps are left out).  inviteCode is NoCode unless type is GROUP.
NewAccount(type, userId, inviteCode) ==
    [type |-> type, ownerId |-> userId, memberIds |-> <<userId>>,
     inviteCode |-> inviteCode]

\* Mutant: the update appends without looking for the identifier.
arrayUnionAppends(array, userId) == Append(array, userId)

\* arrayUnion(userId) applied to the stored array
arrayUnion(array, userId) ==
    IF userId \in Range(array) THEN array ELSE Append(array, userId)

\* getDocs(query(accountsRef, where('inviteCode', '==', inviteCode))) asked by
\* uid.  The query is not restricted to the accounts uid is a member of:
\* a backend that evaluates the rules refuses it (permission-denied) or, as
\* the rules document describes, leaves out the documents uid may not read.
QueryByInviteCode(uid, inviteCode) ==
    LET matching == {id \in DOMAIN accounts : accounts[id].inviteCode = inviteCode}
    IN  IF rulesEnforced
        THEN {[denied |-> TRUE, ids |-> {}],
              [denied |-> FALSE,
               ids |-> {id \in matching : AllowAccountRead(uid, accounts[id])}]}
        ELSE {[denied |-> FALSE, ids |-> matching]}

\* inviteCodeExists: !querySnapshot.empty, and false when the query throws
inviteCodeExists(outcome) ==
    IF outcome.denied THEN FALSE ELSE outcome.ids # {}

\* querySnapshot.docs[0]: documents come ordered by document id
FirstDoc(ids) == CHOOSE id \in ids : \A other \in ids : id <= other

AtRest(u) == call[u].pc \in {"idle", "returned", "threw"}

\* The call ends and its locals go out of scope: what stays is which call
\* it was, how it ended and, for a call that returned, the account returned.
Finish(u, pc, accountId) ==
    call' = [call EXCEPT ![u] =
                [IdleCall EXCEPT !.op = call[u].op, !.pc = pc,
                                 !.accountId = accountId,
                                 !.nonMember = call[u].nonMember,
                                 !.read = call[u].read]]

Throw(u) == Finish(u, "threw", 0)

Return(u, accountId) == Finish(u, "returned", accountId)

\* handleCreateAccount -> createAccount(accountData, user.id): builds
\* newAccount; for a GROUP enters generateUniqueinviteCode up to its first
\* await, otherwise goes on to addDoc.
CreateAccountCall(u) ==
    /\ AtRest(u)
    /\ \E type \in AccountType, k \in 1..NumCodes :
        call' = [call EXCEPT ![u] =
                    [IdleCall EXCEPT
                        !.op = "createAccount",
                        !.pc = IF type = "GROUP" THEN "checkCode" ELSE "addDoc",
                        !.type = type,
                        !.userId = u,
                        !.code = IF type = "GROUP" THEN generateinviteCode(k)
                                 ELSE NoCode]]
    /\ UNCHANGED <<rulesEnforced, accounts, balVars, ledgerVars, storeVars, uiVars>>

\* generateUniqueinviteCode: one evaluation of the loop condition
\* `await inviteCodeExists(code) && attempts < maxAttempts` and what follows
\* it up to the next await: the loop body, or the check after the loop.
CheckInviteCode(u) ==
    /\ call[u].pc = "checkCode"
    /\ \E outcome \in QueryByInviteCode(u, call[u].code), k \in 1..NumCodes :
        IF inviteCodeExists(outcome) /\ call[u].attempts < maxAttempts
        THEN call' = [call EXCEPT ![u].code = generateinviteCode(k),
                                  ![u].attempts = @ + 1]
        ELSE IF call[u].attempts >= maxAttempts
             THEN Throw(u)
             ELSE call' = [call EXCEPT ![u].pc = "addDoc"]
    /\ UNCHANGED <<rulesEnforced, accounts, balVars, ledgerVars, storeVars, uiVars>>

\* createAccount: addDoc(accountsRef, newAccount) and the return.  The
\* backend gives the document an unused id.
CreateAccountAdd(u) ==
    /\ call[u].op = "createAccount"
    /\ call[u].pc = "addDoc"
    /\ LET newAccount == NewAccount(call[u].type, call[u].userId, call[u].code)
       IN  IF Permitted(AllowAccountCreate(u, newAccount))
           THEN \E id \in AccountIds \ DOMAIN accounts :
                   /\ accounts' = accounts @@ (id :> newAccount)
                   /\ Return(u, id)
           ELSE Throw(u) /\ UNCHANGED accounts
    /\ UNCHANGED <<rulesEnforced, balVars, ledgerVars, storeVars, uiVars>>

\* joinAccount(accountId, userId), called in the session of u.
JoinAccountCall(u) ==
    /\ AtRest(u)
    /\ \E accountId \in AccountIds, userId \in Users :
        call' = [call EXCEPT ![u] =
                    [IdleCall EXCEPT !.op = "joinAccount", !.pc = "getDoc",
                                     !.userId = userId,
                                     !.accountId = accountId]]
    /\ UNCHANGED <<rulesEnforced, accounts, balVars, ledgerVars, storeVars, uiVars>>

\* joinAccount: getDoc(accountRef) and the exists() check.
JoinAccountGet(u) ==
    /\ call[u].op = "joinAccount"
    /\ call[u].pc = "getDoc"
    /\ IF /\ call[u].accountId \in DOMAIN accounts
          /\ Permitted(AllowAccountRead(u, accounts[call[u].accountId]))
       THEN call' = [call EXCEPT ![u].pc = "updateDoc"]
       ELSE Throw(u)
    /\ UNCHANGED <<rulesEnforced, accounts, balVars, ledgerVars, storeVars, uiVars>>

\* handleJoinAccount -> joinAccountByCode(code, user.id).  nonMember records
\* that, when called, the code is held by stored GROUP accounts of which the
\* user is not a member.
JoinByCodeCall(u) ==
    /\ AtRest(u)
    /\ \E k \in 1..NumCodes :
        LET inviteCode == generateinviteCode(k)
            holders == {id \in DOMAIN accounts :
                            accounts[id].inviteCode = inviteCode}
        IN  call' = [call EXCEPT ![u] =
                        [IdleCall EXCEPT
                            !.op = "joinAccountByCode",
                            !.pc = "codeQuery",
                            !.userId = u,
                            !.code = inviteCode,
                            !.nonMember =
                                /\ holders # {}
                                /\ \A id \in holders :
                                    /\ accounts[id].type = "GROUP"
                                    /\ u \notin Members(accounts[id])]]
    /\ UNCHANGED <<rulesEnforced, accounts, balVars, ledgerVars, storeVars, uiVars>>

\* joinAccountByCode: the query by code, the empty check and the type check.
JoinByCodeQuery(u) ==
    /\ call[u].op = "joinAccountByCode"
    /\ call[u].pc = "codeQuery"
    /\ \E outcome \in QueryByInviteCode(u, call[u].code) :
        IF outcome.denied \/ outcome.ids = {}
        THEN Throw(u)
        ELSE IF accounts[FirstDoc(outcome.ids)].type # "GROUP"
             THEN Throw(u)
             ELSE call' = [call EXCEPT ![u].pc = "updateDoc",
                                       ![u].accountId = FirstDoc(outcome.ids)]
    /\ UNCHANGED <<rulesEnforced, accounts, balVars, ledgerVars, storeVars, uiVars>>

\* The document after updateDoc(ref, {memberIds: arrayUnion(userId), ...}).
JoinedAccount(resource, userId) ==
    [resource EXCEPT !.memberIds = arrayUnion(@, userId)]

\* joinAccount / joinAccountByCode: updateDoc with arrayUnion(userId).
JoinUpdate(u) ==
    /\ call[u].op \in {"joinAccount", "joinAccountByCode"}
    /\ call[u].pc = "updateDoc"
    /\ LET id == call[u].accountId
       IN  IF /\ id \in DOMAIN accounts
              /\ Permitted(AllowAccountUpdate(u, accounts[id],
                                JoinedAccount(accounts[id], call[u].userId)))
           THEN /\ accounts' = [accounts EXCEPT
                                  ![id] = JoinedAccount(@, call[u].userId)]
                /\ call' = [call EXCEPT ![u].pc = "reread"]
           ELSE Throw(u) /\ UNCHANGED accounts
    /\ UNCHANGED <<rulesEnforced, balVars, ledgerVars, storeVars, uiVars>>

\* joinAccount / joinAccountByCode: the final getDoc and the return.  A
\* document deleted in between reads as {id} without an error, unless the
\* rules are evaluated: they fail on the missing resource.
JoinReread(u) ==
    /\ call[u].op \in {"joinAccount", "joinAccountByCode"}
    /\ call[u].pc = "reread"
    /\ LET id == call[u].accountId
       IN  IF IF id \in DOMAIN accounts
              THEN Permitted(AllowAccountRead(u, accounts[id]))
              ELSE ~rulesEnforced
           THEN Return(u, id)
           ELSE Throw(u)
    /\ UNCHANGED <<rulesEnforced, accounts, balVars, ledgerVars, storeVars, uiVars>>

(***************************************************************************)
(* SpecAccounts: users create accounts and join them, in any interleaving, *)
(* against a backend that does or does not evaluate the documented rules.  *)
(***************************************************************************)
InitAccounts ==
    /\ rulesEnforced \in BOOLEAN
    /\ accounts = <<>>
    /\ call = [u \in Users |-> IdleCall]
    /\ transactionDocs = <<>>
    /\ nextTxId = 1
    /\ BalanceIdle
    /\ LedgerIdle
    /\ UiIdle

NextAccounts ==
    \E u \in Users :
        \/ CreateAccountCall(u)
        \/ CheckInviteCode(u)
        \/ CreateAccountAdd(u)
        \/ JoinAccountCall(u)
        \/ JoinAccountGet(u)
        \/ JoinByCodeCall(u)
        \/ JoinByCodeQuery(u)
        \/ JoinUpdate(u)
        \/ JoinReread(u)

SpecAccounts == InitAccounts /\ [][NextAccounts]_vars

(***************************************************************************)
(* FIRESTORE_SECURITY_RULES.md: the rules of the transactions.  The         *)
(* document states them for a root collection keyed by the accountId       *)
(* field; the services keep the documents under accounts/{accountId}, with *)
(* the same accountId in the path and in the field.                        *)
(***************************************************************************)
\* Mutant: the membership test is missing.
isAccountMemberUnchecked(uid, accountId) == accountId \in DOMAIN accounts

\* function isAccountMember()
isAccountMember(uid, accountId) ==
    /\ accountId \in DOMAIN accounts
    /\ uid \in Members(accounts[accountId])

\* allow read: if isAccountMember()
AllowTransactionRead(uid, accountId) == isAccountMember(uid, accountId)

\* allow create, with the structure validation (amount > 0)
AllowTransactionCreate(uid, requestResource) ==
    /\ isAccountMember(uid, requestResource.accountId)
    /\ requestResource.userId = uid
    /\ requestResource.amount > 0

\* allow delete: if isAccountMember()
AllowTransactionDelete(uid, accountId) == isAccountMember(uid, accountId)

(***************************************************************************)
(* services/transactions.ts and the account-details screen                 *)
(***************************************************************************)
\* The accounts whose details screen the users open.
StoreAccountIds == 1..MaxStoreAccounts

\* The documents of accounts/{accountId}/transactions.
TransactionsOf(accountId) ==
    {t \in DOMAIN transactionDocs : transactionDocs[t].accountId = accountId}

\* getDocs on accounts/{accountId}/transactions asked by uid.
ReadTransactions(uid, accountId) ==
    IF Permitted(AllowTransactionRead(uid, accountId))
    THEN [denied |-> FALSE, ids |-> TransactionsOf(accountId)]
    ELSE [denied |-> TRUE, ids |-> {}]

\* The collection without the documents `ids`.
Without(docs, ids) == [t \in DOMAIN docs \ ids |-> docs[t]]

\* handleCreateTransaction -> createTransaction(transactionData, user.id).
\* The service takes any number as amount.
CreateTransactionCall(u) ==
    /\ AtRest(u)
    /\ \E accountId \in StoreAccountIds, type \in TransactionType,
          amount \in (0 - MaxStoreAmount)..MaxStoreAmount :
        call' = [call EXCEPT ![u] =
                    [IdleCall EXCEPT !.op = "createTransaction",
                                     !.pc = "addDoc",
                                     !.accountId = accountId,
                                     !.type = type,
                                     !.amount = amount,
                                     !.userId = u]]
    /\ UNCHANGED <<rulesEnforced, accounts, balVars, ledgerVars, storeVars, uiVars>>

\* createTransaction: addDoc(transactionsRef, newTransaction).  The add
\* screen passes date: serverTimestamp(); the order of the dates plays no
\* part here and the server time is 1 throughout.
CreateTransactionAdd(u) ==
    /\ call[u].op = "createTransaction"
    /\ call[u].pc = "addDoc"
    /\ nextTxId <= MaxTx
    /\ LET newTransaction ==
            NewTransaction([accountId |-> call[u].accountId,
                            type |-> call[u].type,
                            amount |-> call[u].amount,
                            date |-> NoDate], call[u].userId, 1)
       IN  IF Permitted(AllowTransactionCreate(u, newTransaction))
           THEN /\ transactionDocs' = transactionDocs @@ (nextTxId :> newTransaction)
                /\ nextTxId' = nextTxId + 1
                /\ call' = [call EXCEPT ![u].pc = "touchAccount",
                                        ![u].txId = nextTxId]
           ELSE Throw(u) /\ UNCHANGED storeVars
    /\ UNCHANGED <<rulesEnforced, accounts, balVars, ledgerVars, uiVars>>

\* createTransaction / deleteTransaction:
\* updateDoc(accountRef, {updatedAt: serverTimestamp()}) and the return.
\* updatedAt is not part of the modelled document.
TouchAccount(u) ==
    /\ call[u].op \in {"createTransaction", "deleteTransaction"}
    /\ call[u].pc = "touchAccount"
    /\ LET id == call[u].accountId
       IN  IF /\ id \in DOMAIN accounts
              /\ Permitted(AllowAccountUpdate(u, accounts[id], accounts[id]))
           THEN Return(u, id)
           ELSE Throw(u)
    /\ UNCHANGED <<rulesEnforced, accounts, balVars, ledgerVars, storeVars, uiVars>>

\* deleteTransaction(accountId, transactionId), for a listed transaction.
DeleteTransactionCall(u) ==
    /\ AtRest(u)
    /\ \E t \in DOMAIN transactionDocs :
        call' = [call EXCEPT ![u] =
                    [IdleCall EXCEPT !.op = "deleteTransaction",
                                     !.pc = "deleteDoc",
                                     !.accountId = transactionDocs[t].accountId,
                                     !.txId = t]]
    /\ UNCHANGED <<rulesEnforced, accounts, balVars, ledgerVars, storeVars, uiVars>>

\* deleteTransaction: deleteDoc(transactionRef); deleting a document that
\* is gone succeeds.
DeleteTransactionDoc(u) ==
    /\ call[u].op = "deleteTransaction"
    /\ call[u].pc = "deleteDoc"
    /\ IF Permitted(AllowTransactionDelete(u, call[u].accountId))
       THEN /\ transactionDocs' = Without(transactionDocs, {call[u].txId})
            /\ call' = [call EXCEPT ![u].pc = "touchAccount"]
       ELSE Throw(u) /\ UNCHANGED transactionDocs
    /\ UNCHANGED <<rulesEnforced, accounts, nextTxId, balVars, ledgerVars, uiVars>>

\* getAccountTransactions(accountId): one getDocs; every error, permission
\* errors included, is answered with [].  read holds the ids returned (the
\* query's limit of 50 is beyond MaxTx).
GetAccountTransactions(u) ==
    /\ AtRest(u)
    /\ \E accountId \in StoreAccountIds :
        call' = [call EXCEPT ![u] =
                    [IdleCall EXCEPT
                        !.op = "getAccountTransactions",
                        !.pc = "returned",
                        !.accountId = accountId,
                        !.read = ReadTransactions(u, accountId).ids]]
    /\ UNCHANGED <<rulesEnforced, accounts, balVars, ledgerVars, storeVars, uiVars>>

\* AccountDetailsScreen loadAccount: `joinCode: accountData.joinCode ||
\* undefined`, the join code the screen holds and shows.
LoadedJoinCode(accountData) ==
    IF "joinCode" \in DOMAIN accountData THEN accountData.joinCode ELSE NoCode

\* AccountDetailsScreen loadAccount: getDoc(accountRef); the screen holds the
\* account only if the document exists and could be read.  code is the
\* joinCode of the account the screen holds.
LoadAccount(u) ==
    /\ AtRest(u)
    /\ \E accountId \in StoreAccountIds :
        LET loaded == /\ accountId \in DOMAIN accounts
                      /\ Permitted(AllowAccountRead(u, accounts[accountId]))
        IN  call' = [call EXCEPT ![u] =
                        [IdleCall EXCEPT
                            !.op = "loadAccount",
                            !.pc = IF loaded THEN "returned" ELSE "threw",
                            !.accountId = accountId,
                            !.code = IF loaded
                                     THEN LoadedJoinCode(accounts[accountId])
                                     ELSE NoCode]]
    /\ UNCHANGED <<rulesEnforced, accounts, balVars, ledgerVars, storeVars, uiVars>>

\* performAccountDeletion on the account the screen shows.
DeleteAccountCall(u) ==
    /\ AtRest(u)
    /\ \E accountId \in StoreAccountIds :
        call' = [call EXCEPT ![u] =
                    [IdleCall EXCEPT !.op = "deleteAccount",
                                     !.pc = "getDocs",
                                     !.accountId = accountId]]
    /\ UNCHANGED <<rulesEnforced, accounts, balVars, ledgerVars, storeVars, uiVars>>

\* performAccountDeletion, steps 1-3: getDocs(transactionsRef) and the batch
\* filled with one delete per document read.
DeleteAccountRead(u) ==
    /\ call[u].op = "deleteAccount"
    /\ call[u].pc = "getDocs"
    /\ LET outcome == ReadTransactions(u, call[u].accountId)
       IN  IF outcome.denied
           THEN Throw(u)
           ELSE call' = [call EXCEPT ![u].pc = "commit",
                                     ![u].read = outcome.ids]
    /\ UNCHANGED <<rulesEnforced, accounts, balVars, ledgerVars, storeVars, uiVars>>

\* Mutant: the batch holds a delete for the first document only.
BatchDeletesFirstOnly(docs, ids) ==
    IF ids = {} THEN docs ELSE Without(docs, {FirstDoc(ids)})

\* The collection after batch.commit() of one delete per document of `ids`.
BatchDeletes(docs, ids) == Without(docs, ids)

\* performAccountDeletion, step 4: await batch.commit().  The batch is
\* applied as a whole or not at all; it fails when the backend refuses a
\* delete or cannot be reached (ok = FALSE).
DeleteAccountCommit(u) ==
    /\ call[u].op = "deleteAccount"
    /\ call[u].pc = "commit"
    /\ \E ok \in BOOLEAN :
        IF /\ ok
           /\ call[u].read # {} =>
                Permitted(AllowTransactionDelete(u, call[u].accountId))
        THEN /\ transactionDocs' = BatchDeletes(transactionDocs, call[u].read)
             /\ call' = [call EXCEPT ![u].pc = "deleteAccountDoc"]
        ELSE Throw(u) /\ UNCHANGED transactionDocs
    /\ UNCHANGED <<rulesEnforced, accounts, nextTxId, balVars, ledgerVars, uiVars>>

\* performAccountDeletion, step 5: deleteDoc(accountRef), then
\* router.replace('/').
DeleteAccountDoc(u) ==
    /\ call[u].op = "deleteAccount"
    /\ call[u].pc = "deleteAccountDoc"
    /\ LET id == call[u].accountId
       IN  IF id \in DOMAIN accounts
           THEN IF Permitted(AllowAccountDelete(u, accounts[id]))
                THEN /\ accounts' = [a \in DOMAIN accounts \ {id} |-> accounts[a]]
                     /\ Return(u, id)
                ELSE Throw(u) /\ UNCHANGED accounts
           ELSE /\ IF rulesEnforced THEN Throw(u) ELSE Return(u, id)
                /\ UNCHANGED accounts
    /\ UNCHANGED <<rulesEnforced, balVars, ledgerVars, storeVars, uiVars>>

(***************************************************************************)
(* SpecStore: one GROUP account of u1; users join it (by id or by code),    *)
(* record, read and delete transactions and delete the account.            *)
(***************************************************************************)
InitStore ==
    /\ rulesEnforced \in BOOLEAN
    /\ accounts = (1 :> NewAccount("GROUP", UserNames[1], generateinviteCode(1)))
    /\ call = [u \in Users |-> IdleCall]
    /\ transactionDocs = <<>>
    /\ nextTxId = 1
    /\ BalanceIdle
    /\ LedgerIdle
    /\ UiIdle

NextStore ==
    \E u \in Users :
        \/ JoinAccountCall(u)
        \/ JoinAccountGet(u)
        \/ JoinUpdate(u)
        \/ JoinReread(u)
        \/ JoinByCodeCall(u)
        \/ JoinByCodeQuery(u)
        \/ CreateTransactionCall(u)
        \/ CreateTransactionAdd(u)
        \/ TouchAccount(u)
        \/ DeleteTransactionCall(u)
        \/ DeleteTransactionDoc(u)
        \/ GetAccountTransactions(u)
        \/ LoadAccount(u)
        \/ DeleteAccountCall(u)
        \/ DeleteAccountRead(u)
        \/ DeleteAccountCommit(u)
        \/ DeleteAccountDoc(u)

SpecStore == InitStore /\ [][NextStore]_vars

(***************************************************************************)
(* Claims about stored transactions, account deletion and access           *)
(* (SpecStore).                                                            *)
(***************************************************************************)
\* C5: every transaction document stored through createTransaction has an
\* amount strictly greater than 0, whatever amount the caller passed.
C5_StoredAmountsPositive ==
    \A t \in DOMAIN transactionDocs : transactionDocs[t].amount > 0

\* C6: the account document is removed only by the last step of an account
\* deletion, and then none of the transactions that deletion read at its
\* start is still stored; a deletion that fails while reading or deleting
\* the transactions leaves the account document in place.
C6_TransactionsDeletedBeforeAccount ==
    [][/\ \A a \in DOMAIN accounts :
            a \notin DOMAIN accounts' =>
                \E u \in Users :
                    /\ call[u].op = "deleteAccount"
                    /\ call[u].pc = "deleteAccountDoc"
                    /\ call[u].accountId = a
                    /\ call'[u].pc = "returned"
                    /\ call[u].read \cap DOMAIN transactionDocs' = {}
       /\ \A u \in Users :
            /\ call[u].op = "deleteAccount"
            /\ call[u].pc \in {"getDocs", "commit"}
            /\ call'[u].pc = "threw"
            => accounts' = accounts]_vars

\* A deletion that read transactions has removed the account.
C6_Witness ==
    \E u \in Users :
        /\ call[u].op = "deleteAccount"
        /\ call[u].pc = "returned"
        /\ Cardinality(call[u].read) >= 2
        /\ call[u].accountId \notin DOMAIN accounts

C4_OwnerIsMember ==
    \A id \in DOMAIN accounts : accounts[id].ownerId \in Members(accounts[id])

C4_Witness ==
    \E id \in DOMAIN accounts, u \in Users :
        /\ Len(accounts[id].memberIds) >= 2
        /\ u # accounts[id].ownerId
        /\ call[u].op = "joinAccountByCode"
        /\ call[u].pc = "returned"
        /\ call[u].accountId = id

\* C7: when a user who is not yet a member calls joinAccountByCode with the
\* join code of an existing GROUP account, and the backend enforces the
\* documented access rules, the call completes with that user's identifier
\* in the account's member set.
C7_JoinByCodeAddsMember ==
    \A u \in Users :
        ( /\ rulesEnforced
          /\ call[u].op = "joinAccountByCode"
          /\ call[u].nonMember
          /\ AtRest(u) )
        => /\ call[u].pc = "returned"
           /\ call[u].accountId \in DOMAIN accounts
           /\ u \in Members(accounts[call[u].accountId])

\* C9: invite codes are unique: in no reachable state do two stored accounts
\* hold the same invite code, also when GROUP accounts are created
\* concurrently.
C9_InviteCodesUnique ==
    \A a, b \in DOMAIN accounts :
        (a # b /\ accounts[a].inviteCode # NoCode)
            => accounts[a].inviteCode # accounts[b].inviteCode

AlphaNumeric ==
    {"A", "B", "C", "D", "E", "F", "G", "H", "I", "J", "K", "L", "M", "N",
     "O", "P", "Q", "R", "S", "T", "U", "V", "W", "X", "Y", "Z"}
    \cup {"0", "1", "2", "3", "4", "5", "6", "7", "8", "9"}

\* C10: only GROUP accounts carry a join code: an account created with type
\* INDIVIDUAL has none, and every join code of a GROUP account is exactly 6
\* characters drawn from A-Z and 0-9.
C10_OnlyGroupsCarryCode ==
    \A id \in DOMAIN accounts :
        LET account == accounts[id]
        IN  /\ account.type = "INDIVIDUAL" => account.inviteCode = NoCode
            /\ account.inviteCode # NoCode =>
                /\ account.type = "GROUP"
                /\ Len(account.inviteCode) = 6
                /\ \A i \in 1..Len(account.inviteCode) :
                    account.inviteCode[i] \in AlphaNumeric

C10_Witness ==
    \E a, b \in DOMAIN accounts :
        /\ accounts[a].type = "INDIVIDUAL"
        /\ accounts[b].type = "GROUP"
        /\ accounts[b].inviteCode # NoCode

(***************************************************************************)
(* SpecBalance: the inputs are drawn in Init, the action evaluates.        *)
(***************************************************************************)
BalanceRecords ==
    [type : TransactionType \cup {OtherType}, amount : 1..MaxAmount]

BalanceInputs ==
    UNION {[1..n -> BalanceRecords] : n \in 0..MaxLen}

InitBalance ==
    /\ balInput \in BalanceInputs
    /\ balSplit = 0
    /\ balWhole = 0
    /\ balLeft = 0
    /\ balRight = 0
    /\ balPc = "start"
    /\ LedgerIdle
    /\ BackendIdle
    /\ UiIdle

\* A caller evaluates calculateBalance on the list and on the two parts of
\* one split of it.
EvaluateBalance ==
    /\ balPc = "start"
    /\ \E k \in 0..Len(balInput) :
        /\ balSplit' = k
        /\ balWhole' = calculateBalance(balInput)
        /\ balLeft' = calculateBalance(SubSeq(balInput, 1, k))
        /\ balRight' = calculateBalance(SubSeq(balInput, k + 1, Len(balInput)))
    /\ balPc' = "done"
    /\ UNCHANGED <<balInput, ledgerVars, backendVars, uiVars>>

NextBalance == EvaluateBalance

SpecBalance == InitBalance /\ [][NextBalance]_vars

(***************************************************************************)
(* Reference sums used by the claims.                                      *)
(***************************************************************************)
RECURSIVE SumOfType(_, _)
SumOfType(transactions, ty) ==
    IF transactions = <<>> THEN 0
    ELSE (IF transactions[Len(transactions)].type = ty
          THEN transactions[Len(transactions)].amount ELSE 0)
         + SumOfType(SubSeq(transactions, 1, Len(transactions) - 1), ty)

\* C1: for every finite list T, calculateBalance(T) is the sum of the INCOME
\* amounts minus the sum of the EXPENSE amounts; elements of any other type
\* contribute nothing, and the empty list gives 0.
C1_BalanceIsSignedSum ==
    balPc = "done" =>
        /\ balWhole = SumOfType(balInput, "INCOME") - SumOfType(balInput, "EXPENSE")
        /\ (balInput = <<>> => balWhole = 0)

C1_Witness ==
    /\ balPc = "done"
    /\ \E i, j, k \in 1..Len(balInput) :
        /\ balInput[i].type = "INCOME"
        /\ balInput[j].type = "EXPENSE"
        /\ balInput[k].type = OtherType
    /\ balWhole = -1

StartOfDay(millis) == (millis \div DayMillis) * DayMillis
EndOfDay(millis) == StartOfDay(millis) + DayMillis - 1

\* if (filterType !== 'ALL') filtered = filtered.filter(t => t.type === filterType)
FilterByType(filtered, f) ==
    IF f.filterType # "ALL"
    THEN SelectSeq(filtered, LAMBDA t : t.type = f.filterType)
    ELSE filtered

FilterByCategory(filtered, f) ==
    IF f.filterCategory # "ALL"
    THEN SelectSeq(filtered, LAMBDA t : t.category = f.filterCategory)
    ELSE filtered

\* if (account?.type === 'GROUP' && filterUserId !== 'ALL') ...
FilterByUser(filtered, accountType, f) ==
    IF accountType = "GROUP" /\ f.filterUserId # "ALL"
    THEN SelectSeq(filtered, LAMBDA t : t.userId = f.filterUserId)
    ELSE filtered

\* if (filterMinAmount !== null && filterMinAmount > 0) ...
FilterByMinAmount(filtered, f) ==
    IF f.filterMinAmount # Null /\ f.filterMinAmount[1] > 0
    THEN SelectSeq(filtered, LAMBDA t : t.amount >= f.filterMinAmount[1])
    ELSE filtered

\* if (filterMaxAmount !== null && filterMaxAmount > 0) ...
FilterByMaxAmount(filtered, f) ==
    IF f.filterMaxAmount # Null /\ f.filterMaxAmount[1] > 0
    THEN SelectSeq(filtered, LAMBDA t : t.amount <= f.filterMaxAmount[1])
    ELSE filtered

\* if (filterStartDate !== null) ...: both dates cut to the start of their day
FilterByStartDate(filtered, f) ==
    IF f.filterStartDate # Null
    THEN SelectSeq(filtered, LAMBDA t :
            IF t.date = Null THEN FALSE
            ELSE StartOfDay(t.date[1]) >= StartOfDay(f.filterStartDate[1]))
    ELSE filtered

\* if (filterEndDate !== null) ...: the end date runs to the end of its day
FilterByEndDate(filtered, f) ==
    IF f.filterEndDate # Null
    THEN SelectSeq(filtered, LAMBDA t :
            IF t.date = Null THEN FALSE
            ELSE StartOfDay(t.date[1]) <= EndOfDay(f.filterEndDate[1]))
    ELSE filtered

\* filteredTransactions up to, and without, filtered.sort(...)
FilterStage(transactions, accountType, f) ==
    FilterByEndDate(
      FilterByStartDate(
        FilterByMaxAmount(
          FilterByMinAmount(
            FilterByUser(
              FilterByCategory(
                FilterByType(transactions, f), f), accountType, f), f), f), f), f)

\* a.date?.toMillis() || 0
MillisOrZero(transaction) ==
    IF transaction.date = Null THEN 0
    ELSE IF transaction.date[1] = 0 THEN 0 ELSE transaction.date[1]

\* The comparator handed to filtered.sort
Compare(sortOrder, a, b) ==
    CASE sortOrder = "newest" -> MillisOrZero(b) - MillisOrZero(a)
      [] sortOrder = "oldest" -> MillisOrZero(a) - MillisOrZero(b)
      [] sortOrder = "highest" -> b.amount - a.amount
      [] sortOrder = "lowest" -> a.amount - b.amount
      [] OTHER -> 0

\* Mutant: an element goes in front of the elements it compares equal to.
InsertByOrderBeforeEquals(sorted, x, sortOrder) ==
    LET RECURSIVE Ins(_)
        Ins(rest) ==
            IF rest = <<>> THEN <<x>>
            ELSE IF Compare(sortOrder, Head(rest), x) >= 0
                 THEN <<x>> \o rest
                 ELSE <<Head(rest)>> \o Ins(Tail(rest))
    IN  Ins(sorted)

\* Mutant: the comparator's sign is ignored and input order is kept.
InsertByOrderAtEnd(sorted, x, sortOrder) == Append(sorted, x)

\* Array.prototype.sort is a stable sort (ECMAScript 2019, 22.1.3.27): one
\* insertion puts x, which follows the elements of `sorted` in the input,
\* in front of the first element that the comparator places after x.
RECURSIVE InsertByOrder(_, _, _)
InsertByOrder(sorted, x, sortOrder) ==
    IF sorted = <<>> THEN <<x>>
    ELSE IF Compare(sortOrder, Head(sorted), x) > 0
         THEN <<x>> \o sorted
         ELSE <<Head(sorted)>> \o InsertByOrder(Tail(sorted), x, sortOrder)

RECURSIVE SortFromByOrder(_, _, _, _)
SortFromByOrder(filtered, i, sorted, sortOrder) ==
    IF i > Len(filtered) THEN sorted
    ELSE SortFromByOrder(filtered, i + 1,
                         InsertByOrder(sorted, filtered[i], sortOrder), sortOrder)

\* filtered.sort((a, b) => { switch (sortOrder) ... })
SortStage(filtered, sortOrder) == SortFromByOrder(filtered, 1, <<>>, sortOrder)

(***************************************************************************)
(* SpecFilter: one evaluation of the memo on a bounded list under bounded  *)
(* filter settings.                                                        *)
(***************************************************************************)
PipeCategories == {"food", "salary"}
PaymentMethod == {"CASH", "CARD"}
SortOrder == {"newest", "oldest", "highest", "lowest"}

\* An EXPENSE of the smallest amount, by u1, dated on the second day.
PlainTransaction ==
    [id |-> 0, type |-> "EXPENSE", category |-> "food", userId |-> "u1",
     amount |-> 1, date |-> Some(DayMillis), paymentMethod |-> "CARD"]

\* The plain transaction and the transactions that differ from it in one field.
FilterVariants ==
    {PlainTransaction}
    \cup {[PlainTransaction EXCEPT !.type = "INCOME"]}
    \cup {[PlainTransaction EXCEPT !.category = "salary"]}
    \cup {[PlainTransaction EXCEPT !.userId = u] : u \in Users}
    \cup {[PlainTransaction EXCEPT !.amount = a] : a \in 1..MaxAmount}
    \cup {[PlainTransaction EXCEPT !.date = d] :
            d \in {Null, Some(1), Some(2 * DayMillis)}}
    \cup {[PlainTransaction EXCEPT !.paymentMethod = "CASH"]}

\* The documents of a snapshot carry distinct ids: here, the position.
WithIds(s) == [i \in 1..Len(s) |-> [s[i] EXCEPT !.id = i]]

FilterInputs ==
    {WithIds(s) : s \in UNION {[1..n -> FilterVariants] : n \in 0..MaxPipeLen}}

\* The criteria that hasActiveFilters counts as set.
ActiveCriteria(f) ==
    {c \in {"type", "category", "user", "min", "max", "start", "end"} :
        \/ c = "type" /\ f.filterType # "ALL"
        \/ c = "category" /\ f.filterCategory # "ALL"
        \/ c = "user" /\ f.filterUserId # "ALL"
        \/ c = "min" /\ f.filterMinAmount # Null
        \/ c = "max" /\ f.filterMaxAmount # Null
        \/ c = "start" /\ f.filterStartDate # Null
        \/ c = "end" /\ f.filterEndDate # Null}

\* What the filter screen can produce: amounts typed are >= 0 or cleared,
\* dates are picked or cleared.
AllFilterSettings ==
    [filterType : {"ALL"} \cup TransactionType,
     filterCategory : {"ALL"} \cup PipeCategories,
     filterUserId : {"ALL"} \cup Users,
     filterMinAmount : {Null} \cup {Some(a) : a \in 0..MaxAmount},
     filterMaxAmount : {Null} \cup {Some(a) : a \in 0..MaxAmount},
     filterStartDate : {Null, Some(1), Some(DayMillis + 1)},
     filterEndDate : {Null, Some(1), Some(DayMillis + 1)},
     sortOrder : {"newest"}]

FilterSettings ==
    {f \in AllFilterSettings : Cardinality(ActiveCriteria(f)) <= MaxCriteria}

\* The user filter is offered for GROUP accounts only.
InitFilter ==
    /\ pipeTransactions \in FilterInputs
    /\ pipeAccountType \in AccountType
    /\ pipeFilters \in FilterSettings
    /\ pipeAccountType = "INDIVIDUAL" => pipeFilters.filterUserId = "ALL"
    /\ pipeFiltered = <<>>
    /\ pipeSorted = <<>>
    /\ pipePc = "start"
    /\ PanelIdle
    /\ BalanceIdle
    /\ LedgerIdle
    /\ BackendIdle
    /\ FormatIdle
    /\ SessionIdle

\* The memo is computed for the current state of the screen.
EvaluatePipeline ==
    /\ pipePc = "start"
    /\ LET filtered == FilterStage(pipeTransactions, pipeAccountType, pipeFilters)
       IN  /\ pipeFiltered' = filtered
           /\ pipeSorted' = SortStage(filtered, pipeFilters.sortOrder)
    /\ pipePc' = "done"
    /\ UNCHANGED <<pipeTransactions, pipeAccountType, pipeFilters, panelVars,
                   balVars, ledgerVars, backendVars, sessionVars, fmtVars>>

NextFilter == EvaluatePipeline

SpecFilter == InitFilter /\ [][NextFilter]_vars

\* A transaction satisfies every criterion that is set.
SatisfiesAll(t, f) ==
    /\ f.filterType # "ALL" => t.type = f.filterType
    /\ f.filterCategory # "ALL" => t.category = f.filterCategory
    /\ f.filterUserId # "ALL" => t.userId = f.filterUserId
    /\ f.filterMinAmount # Null => t.amount >= f.filterMinAmount[1]
    /\ f.filterMaxAmount # Null => t.amount <= f.filterMaxAmount[1]
    /\ f.filterStartDate # Null =>
        /\ t.date # Null
        /\ t.date[1] \div DayMillis >= f.filterStartDate[1] \div DayMillis
    /\ f.filterEndDate # Null =>
        /\ t.date # Null
        /\ t.date[1] \div DayMillis <= f.filterEndDate[1] \div DayMillis

\* C11: the filter stage yields exactly the transactions of its input that
\* satisfy every active criterion, in their input order.
C11_FilterYieldsMatching ==
    pipePc = "done" =>
        pipeFiltered = SelectSeq(pipeTransactions,
                                 LAMBDA t : SatisfiesAll(t, pipeFilters))

(***************************************************************************)
(* SpecFilterScreens: the filter screen (transactions-filter.tsx) saves    *)
(* the criteria, the list screen (transactions.tsx) loads them on focus.   *)
(***************************************************************************)
\* Lists whose transactions differ in the payment method only.
PaymentInputs ==
    {WithIds(s) : s \in UNION {[1..n -> {PlainTransaction,
                                          [PlainTransaction EXCEPT
                                              !.paymentMethod = "CASH"]}] :
                                n \in 0..MaxPipeLen}}

\* The criteria set on the filter screen, the payment method included.
PanelCriteria(f) ==
    ActiveCriteria(f) \cup (IF f.filterPaymentMethod # "ALL" THEN {"payment"} ELSE {})

\* filterStartDate?.toISOString() || null, and back with new Date(...): the
\* ISO string carries the milliseconds, the date read back is the same instant.
FromISOString(toISOString) == toISOString

\* handleApplyFilters: the object handed to JSON.stringify
SavedFromPanel(f) ==
    [filterType |-> f.filterType, filterCategory |-> f.filterCategory,
     filterUserId |-> f.filterUserId,
     filterMinAmount |-> f.filterMinAmount,
     filterMaxAmount |-> f.filterMaxAmount,
     filterStartDate |-> f.filterStartDate,
     filterEndDate |-> f.filterEndDate,
     filterPaymentMethod |-> f.filterPaymentMethod,
     sortOrder |-> "newest"]

\* TransactionsFilterScreen loadFilters: the states set from the saved item
PanelFromSaved(saved) ==
    [filterType |-> saved.filterType, filterCategory |-> saved.filterCategory,
     filterUserId |-> saved.filterUserId,
     filterMinAmount |-> saved.filterMinAmount,
     filterMaxAmount |-> saved.filterMaxAmount,
     filterStartDate |-> FromISOString(saved.filterStartDate),
     filterEndDate |-> FromISOString(saved.filterEndDate),
     filterPaymentMethod |-> saved.filterPaymentMethod]

\* TransactionsScreen loadFilters: the states set from the saved item; the
\* screen has no state for the payment method and reads none.
ListFromSaved(saved) ==
    [filterType |-> saved.filterType, filterCategory |-> saved.filterCategory,
     filterUserId |-> saved.filterUserId,
     filterMinAmount |-> saved.filterMinAmount,
     filterMaxAmount |-> saved.filterMaxAmount,
     filterStartDate |-> FromISOString(saved.filterStartDate),
     filterEndDate |-> FromISOString(saved.filterEndDate),
     sortOrder |-> saved.sortOrder]

\* The list screen renders with filters f: the memo is recomputed.
Rendered(f) ==
    LET filtered == FilterStage(pipeTransactions, pipeAccountType, f)
    IN  /\ pipeFilters' = f
        /\ pipeFiltered' = filtered
        /\ pipeSorted' = SortStage(filtered, f.sortOrder)

\* useFocusEffect of the list screen: loadFilters.
LoadFilters ==
    /\ pipePc = "focus"
    /\ panelFilters = Null
    /\ Rendered(IF savedFilters = Null THEN pipeFilters
                ELSE ListFromSaved(savedFilters[1]))
    /\ pipePc' = "done"
    /\ UNCHANGED <<pipeTransactions, pipeAccountType, panelVars,
                   balVars, ledgerVars, backendVars, sessionVars, fmtVars>>

\* handleResetFilters of the list screen (the dates are not reset).
ListResetFilters ==
    /\ pipePc = "done"
    /\ panelFilters = Null
    /\ Rendered([DefaultFilters EXCEPT
                    !.filterStartDate = pipeFilters.filterStartDate,
                    !.filterEndDate = pipeFilters.filterEndDate])
    /\ UNCHANGED <<pipeTransactions, pipeAccountType, pipePc, panelVars,
                   balVars, ledgerVars, backendVars, sessionVars, fmtVars>>

\* router.push(.../transactions-filter): the filter screen mounts and its
\* effect loads the saved item.
OpenFilterScreen ==
    /\ pipePc = "done"
    /\ panelFilters = Null
    /\ panelFilters' = Some(IF savedFilters = Null THEN DefaultPanelFilters
                            ELSE PanelFromSaved(savedFilters[1]))
    /\ UNCHANGED <<pipeVars, savedFilters, balVars, ledgerVars, backendVars, sessionVars, fmtVars>>

\* A control of the filter screen sets one of its states to f.
PanelSet(f) ==
    /\ panelFilters # Null
    /\ f # panelFilters[1]
    /\ Cardinality(PanelCriteria(f)) <= MaxPanelCriteria
    /\ panelFilters' = Some(f)
    /\ UNCHANGED <<pipeVars, savedFilters, balVars, ledgerVars, backendVars, sessionVars, fmtVars>>

PanelSetType ==
    \E v \in {"ALL"} \cup TransactionType :
        panelFilters # Null /\ PanelSet([panelFilters[1] EXCEPT !.filterType = v])

PanelSetCategory ==
    \E v \in {"ALL"} \cup PipeCategories :
        panelFilters # Null
        /\ PanelSet([panelFilters[1] EXCEPT !.filterCategory = v])

\* {account?.type === 'GROUP' && ( ... the user buttons ... )}
PanelSetUser ==
    \E v \in {"ALL"} \cup Users :
        /\ panelFilters # Null
        /\ pipeAccountType = "GROUP"
        /\ PanelSet([panelFilters[1] EXCEPT !.filterUserId = v])

\* onChangeText: value !== null && !isNaN(value) && value >= 0 ? value : null
PanelSetMinAmount ==
    \E v \in {Null} \cup {Some(a) : a \in 0..MaxAmount} :
        panelFilters # Null
        /\ PanelSet([panelFilters[1] EXCEPT !.filterMinAmount = v])

PanelSetMaxAmount ==
    \E v \in {Null} \cup {Some(a) : a \in 0..MaxAmount} :
        panelFilters # Null
        /\ PanelSet([panelFilters[1] EXCEPT !.filterMaxAmount = v])

\* The date picker hands over the day chosen.
PanelSetStartDate ==
    \E v \in {Some(1), Some(DayMillis + 1)} :
        panelFilters # Null
        /\ PanelSet([panelFilters[1] EXCEPT !.filterStartDate = v])

\* The date picker hands over the day chosen.
PanelSetEndDate ==
    \E v \in {Some(1), Some(DayMillis + 1)} :
        panelFilters # Null
        /\ PanelSet([panelFilters[1] EXCEPT !.filterEndDate = v])

PanelSetPaymentMethod ==
    \E v \in {"ALL"} \cup PaymentMethod :
        panelFilters # Null
        /\ PanelSet([panelFilters[1] EXCEPT !.filterPaymentMethod = v])

\* handleResetFilters of the filter screen.
PanelResetFilters ==
    /\ panelFilters # Null
    /\ panelFilters' = Some(DefaultPanelFilters)
    /\ UNCHANGED <<pipeVars, savedFilters, balVars, ledgerVars, backendVars, sessionVars, fmtVars>>

\* handleApplyFilters: AsyncStorage.setItem and router.back(); the list
\* screen regains focus.
ApplyFilters ==
    /\ panelFilters # Null
    /\ savedFilters' = Some(SavedFromPanel(panelFilters[1]))
    /\ panelFilters' = Null
    /\ pipePc' = "focus"
    /\ UNCHANGED <<pipeTransactions, pipeAccountType, pipeFilters, pipeFiltered,
                   pipeSorted, balVars, ledgerVars, backendVars, sessionVars, fmtVars>>

\* Leaving the filter screen with the back button: nothing is saved.
LeaveFilterScreen ==
    /\ panelFilters # Null
    /\ panelFilters' = Null
    /\ pipePc' = "focus"
    /\ UNCHANGED <<pipeTransactions, pipeAccountType, pipeFilters, pipeFiltered,
                   pipeSorted, savedFilters, balVars, ledgerVars, backendVars, sessionVars, fmtVars>>

InitFilterScreens ==
    /\ pipeTransactions \in PaymentInputs
    /\ pipeAccountType \in AccountType
    /\ pipeFilters = DefaultFilters
    /\ pipeFiltered = <<>>
    /\ pipeSorted = <<>>
    /\ pipePc = "focus"
    /\ PanelIdle
    /\ BalanceIdle
    /\ LedgerIdle
    /\ BackendIdle
    /\ FormatIdle
    /\ SessionIdle

NextFilterScreens ==
    \/ LoadFilters
    \/ ListResetFilters
    \/ OpenFilterScreen
    \/ PanelSetType
    \/ PanelSetCategory
    \/ PanelSetUser
    \/ PanelSetMinAmount
    \/ PanelSetMaxAmount
    \/ PanelSetStartDate
    \/ PanelSetEndDate
    \/ PanelSetPaymentMethod
    \/ PanelResetFilters
    \/ ApplyFilters
    \/ LeaveFilterScreen

SpecFilterScreens == InitFilterScreens /\ [][NextFilterScreens]_vars

\* C12: once a payment-method filter has been applied and the list screen
\* has loaded the saved filters, the list shows only transactions with that
\* payment method.
C12_PaymentMethodFiltered ==
    (/\ savedFilters # Null
     /\ panelFilters = Null
     /\ pipePc = "done"
     /\ pipeFilters = ListFromSaved(savedFilters[1])
     /\ savedFilters[1].filterPaymentMethod # "ALL")
    => \A i \in 1..Len(pipeSorted) :
            pipeSorted[i].paymentMethod = savedFilters[1].filterPaymentMethod

(***************************************************************************)
(* SpecSort: one evaluation of the memo with no filter set, for each sort  *)
(* mode, on bounded lists that differ in amount and date.                  *)
(***************************************************************************)
SortAmounts == {5, 10, 50}

\* No date (a write the server has not yet stamped), a date before the
\* epoch (the edit screen's date picker has no minimum), the epoch, and later.
SortDates == {Null} \cup {Some(m) : m \in (0 - 1)..DayMillis}

SortVariants ==
    {[PlainTransaction EXCEPT !.amount = a, !.date = d] :
        a \in SortAmounts, d \in SortDates}

SortInputs ==
    {WithIds(s) : s \in UNION {[1..n -> SortVariants] : n \in 0..MaxLen}}

InitSort ==
    /\ pipeTransactions \in SortInputs
    /\ pipeAccountType \in AccountType
    /\ \E sortOrder \in SortOrder :
        pipeFilters = [DefaultFilters EXCEPT !.sortOrder = sortOrder]
    /\ pipeFiltered = <<>>
    /\ pipeSorted = <<>>
    /\ pipePc = "start"
    /\ PanelIdle
    /\ BalanceIdle
    /\ LedgerIdle
    /\ BackendIdle
    /\ FormatIdle
    /\ SessionIdle

NextSort == EvaluatePipeline

SpecSort == InitSort /\ [][NextSort]_vars

Amounts(s) == [i \in 1..Len(s) |-> s[i].amount]

\* C13: the sorted list is a permutation of the filtered list, ordered by
\* the key of the sort mode: dates non-increasing for newest, non-decreasing
\* for oldest, amounts non-increasing for highest, non-decreasing for lowest.
C13_SortedByModeKey ==
    pipePc = "done" =>
        /\ Len(pipeSorted) = Len(pipeFiltered)
        /\ \A i \in 1..Len(pipeFiltered) :
            \E j \in 1..Len(pipeSorted) : pipeSorted[j] = pipeFiltered[i]
        /\ \A i, j \in 1..Len(pipeSorted) :
            i < j =>
                LET a == pipeSorted[i]
                    b == pipeSorted[j]
                    dated == a.date # Null /\ b.date # Null
                IN  CASE pipeFilters.sortOrder = "newest" ->
                            dated => a.date[1] >= b.date[1]
                      [] pipeFilters.sortOrder = "oldest" ->
                            dated => a.date[1] <= b.date[1]
                      [] pipeFilters.sortOrder = "highest" -> a.amount >= b.amount
                      [] pipeFilters.sortOrder = "lowest" -> a.amount <= b.amount

\* Sorting by highest on amounts [10, 50, 5] has given [50, 10, 5].
C13_Witness ==
    /\ pipePc = "done"
    /\ pipeFilters.sortOrder = "highest"
    /\ Amounts(pipeTransactions) = <<10, 50, 5>>
    /\ Amounts(pipeSorted) = <<50, 10, 5>>

\* C14: a transaction without a date sorts after every dated transaction
\* under newest and before every dated transaction under oldest.
C14_UndatedIsEarliest ==
    pipePc = "done" =>
        \A i, j \in 1..Len(pipeSorted) :
            (pipeSorted[i].date = Null /\ pipeSorted[j].date # Null) =>
                /\ pipeFilters.sortOrder = "newest" => j < i
                /\ pipeFilters.sortOrder = "oldest" => i < j

RECURSIVE Pow10(_)
Pow10(n) == IF n = 0 THEN 1 ELSE 10 * Pow10(n - 1)

RawUnit == Pow10(3)

DigitChars == <<"0", "1", "2", "3", "4", "5", "6", "7", "8", "9">>

IsDigit(c) == \E d \in 1..10 : DigitChars[d] = c

DigitValue(c) == (CHOOSE d \in 1..10 : DigitChars[d] = c) - 1

\* value.replace(/[^0-9]/g, '')
OnlyDigits(value) == SelectSeq(value, IsDigit)

\* parseInt(digits, 10) on a non-empty string of digits
RECURSIVE ParseDigits(_, _, _)
ParseDigits(digits, i, n) ==
    IF i > Len(digits) THEN n
    ELSE ParseDigits(digits, i + 1, 10 * n + DigitValue(digits[i]))

parseInt(digits) == ParseDigits(digits, 1, 0)

\* !value || value.trim().length === 0
IsBlank(value) == \A i \in 1..Len(value) : value[i] = " "

\* value.includes(separator)
Includes(value, separator) == \E i \in 1..Len(value) : value[i] = separator

\* The index of the first separator at or after position i, Len + 1 if none.
RECURSIVE IndexFrom(_, _, _)
IndexFrom(value, separator, i) ==
    IF i > Len(value) THEN Len(value) + 1
    ELSE IF value[i] = separator THEN i
    ELSE IndexFrom(value, separator, i + 1)

\* value.split(separator)[0]
SplitFirst(value, separator) ==
    SubSeq(value, 1, IndexFrom(value, separator, 1) - 1)

\* value.split(separator)[1], for a value that includes the separator
SplitSecond(value, separator) ==
    LET first == IndexFrom(value, separator, 1)
    IN  SubSeq(value, first + 1, IndexFrom(value, separator, first + 1) - 1)

\* The decimal digits of a natural number
RECURSIVE DigitsOf(_)
DigitsOf(n) ==
    IF n < 10 THEN <<DigitChars[n + 1]>>
    ELSE Append(DigitsOf(n \div 10), DigitChars[(n % 10) + 1])

\* Mutant: no grouping separators are written.
GroupedUngrouped(digits, groupSeparator) == digits

\* The digits in groups of three counted from the right
RECURSIVE Grouped(_, _)
Grouped(digits, groupSeparator) ==
    IF Len(digits) <= 3 THEN digits
    ELSE Grouped(SubSeq(digits, 1, Len(digits) - 3), groupSeparator)
            \o <<groupSeparator>>
            \o SubSeq(digits, Len(digits) - 2, Len(digits))

\* integerValue.toLocaleString('es-CO' | 'de-DE' | 'en-US') of an integer:
\* es-CO and de-DE group with ".", en-US with ","
toLocaleString(integerValue, locale) ==
    Grouped(DigitsOf(integerValue), IF locale = "en-US" THEN "," ELSE ".")

\* parseFloat(value): leading blanks, digits, and a fraction after "."; NaN,
\* shown as Null, if no digit is found (the model's strings carry no sign
\* and no exponent).
parseFloat(value) ==
    LET RECURSIVE SkipBlanks(_)
        SkipBlanks(i) ==
            IF i <= Len(value) /\ value[i] = " " THEN SkipBlanks(i + 1) ELSE i
        RECURSIVE DigitsEnd(_)
        DigitsEnd(i) ==
            IF i <= Len(value) /\ IsDigit(value[i]) THEN DigitsEnd(i + 1) ELSE i
        start == SkipBlanks(1)
        intEnd == DigitsEnd(start)
        intDigits == SubSeq(value, start, intEnd - 1)
        hasDot == intEnd <= Len(value) /\ value[intEnd] = "."
        fracEnd == IF hasDot THEN DigitsEnd(intEnd + 1) ELSE intEnd
        fracDigits == IF hasDot THEN SubSeq(value, intEnd + 1, fracEnd - 1) ELSE <<>>
    IN  IF intDigits = <<>> /\ fracDigits = <<>> THEN Null
        ELSE Some(parseInt(intDigits) * RawUnit
                  + (parseInt(fracDigits) * RawUnit) \div Pow10(Len(fracDigits)))

\* The branch without a decimal separator, and the whole of COP:
\* the digits of the input, parsed and written with grouping.
FormatInteger(value, locale) ==
    LET numericValue == OnlyDigits(value)
    IN  IF numericValue = <<>> THEN [formatted |-> <<>>, raw |-> 0]
        ELSE LET integerValue == parseInt(numericValue)
             IN  [formatted |-> toLocaleString(integerValue, locale),
                  raw |-> integerValue * RawUnit]

\* Mutant: the fractional digits are not cut to two.
FormatDecimalUncapped(value, separator, locale) ==
    LET integerPart == OnlyDigits(SplitFirst(value, separator))
        decimalPart == OnlyDigits(SplitSecond(value, separator))
        integerValue == IF integerPart # <<>> THEN parseInt(integerPart) ELSE 0
    IN  [formatted |-> toLocaleString(integerValue, locale) \o <<separator>> \o decimalPart,
         raw |-> integerValue * RawUnit
                 + (parseInt(decimalPart) * RawUnit) \div Pow10(Len(decimalPart))]

\* Mutant: a separator with no digits after it is not written back.
FormatDecimalDropsSeparator(value, separator, locale) ==
    LET integerPart == OnlyDigits(SplitFirst(value, separator))
        decimalPart == Slice(OnlyDigits(SplitSecond(value, separator)), 2)
        integerValue == IF integerPart # <<>> THEN parseInt(integerPart) ELSE 0
    IN  [formatted |-> IF decimalPart # <<>>
                       THEN toLocaleString(integerValue, locale) \o <<separator>> \o decimalPart
                       ELSE toLocaleString(integerValue, locale),
         raw |-> integerValue * RawUnit
                 + (parseInt(decimalPart) * RawUnit) \div Pow10(Len(decimalPart))]

\* The branch with a decimal separator: parts[0] and parts[1] of the split,
\* their digits, the fraction cut to two digits.
FormatDecimal(value, separator, locale) ==
    LET integerPart == OnlyDigits(SplitFirst(value, separator))
        decimalPart == Slice(OnlyDigits(SplitSecond(value, separator)), 2)
        integerValue == IF integerPart # <<>> THEN parseInt(integerPart) ELSE 0
        decimalValue == IF decimalPart # <<>>
                        THEN (parseInt(decimalPart) * RawUnit) \div Pow10(Len(decimalPart))
                        ELSE 0
        formattedInteger == toLocaleString(integerValue, locale)
    IN  [formatted |-> IF decimalPart # <<>>
                       THEN formattedInteger \o <<separator>> \o decimalPart
                       ELSE formattedInteger \o <<separator>>,
         raw |-> integerValue * RawUnit + decimalValue]

\* The branches the two screens share: blank input, COP, EUR and USD.
FormatKnownCurrency(value, currency) ==
    IF currency = "COP" THEN FormatInteger(value, "es-CO")
    ELSE IF Includes(value, ",") THEN FormatDecimal(value, ",", "de-DE")
    ELSE FormatInteger(value, "de-DE")

\* transaction-add.tsx formatCurrencyInput: the last else takes "." as the
\* decimal separator and groups with ",".
formatCurrencyInputAdd(value, currency) ==
    IF IsBlank(value) THEN [formatted |-> <<>>, raw |-> 0]
    ELSE IF currency \in {"COP", "EUR", "USD"} THEN FormatKnownCurrency(value, currency)
    ELSE IF Includes(value, ".") THEN FormatDecimal(value, ".", "en-US")
    ELSE FormatInteger(value, "en-US")

\* transaction-edit.tsx formatCurrencyInput: after the COP and EUR/USD
\* branches, return { formatted: value, raw: parseFloat(value) || 0 }.
formatCurrencyInputEdit(value, currency) ==
    IF IsBlank(value) THEN [formatted |-> <<>>, raw |-> 0]
    ELSE IF currency \in {"COP", "EUR", "USD"} THEN FormatKnownCurrency(value, currency)
    ELSE [formatted |-> value,
          raw |-> IF parseFloat(value) = Null THEN 0 ELSE parseFloat(value)[1]]

formatCurrencyInput(screen, value, currency) ==
    IF screen = "add" THEN formatCurrencyInputAdd(value, currency)
    ELSE formatCurrencyInputEdit(value, currency)

\* Number.prototype.toString() of a non-negative amount.
NumberToString(amount) ==
    LET whole == DigitsOf(amount \div RawUnit)
        RECURSIVE Fraction(_, _)
        Fraction(rest, unit) ==
            IF rest = 0 THEN <<>>
            ELSE <<DigitChars[(rest * 10) \div unit + 1]>>
                    \o Fraction((rest * 10) % unit, unit)
        fraction == Fraction(amount % RawUnit, RawUnit)
    IN  IF fraction = <<>> THEN whole ELSE whole \o <<".">> \o fraction

(***************************************************************************)
(* SpecFormat: a string is typed into the amount field of either screen,   *)
(* or the edit screen loads a stored amount; the field's text is then      *)
(* passed through the formatter once more.                                 *)
(***************************************************************************)
Currency == {"EUR", "USD", "COP"}

\* A currency code outside the union of types.ts
OtherCurrency == "GBP"

FormatChars == {"0", "1", "2", "5", ",", ".", " ", "x"}

\* "1000000", "1234,56"
LongInputs ==
    {<<"1", "0", "0", "0", "0", "0", "0">>,
     <<"1", "2", "3", "4", ",", "5", "6">>}

FormatInputs ==
    UNION {[1..n -> FormatChars] : n \in 0..MaxFormatLen} \cup LongInputs

\* Amounts with at most two decimal digits: 0.05, 0.5, 12, 12.5, 1234.56, 1000000
StoredAmounts ==
    {h * (RawUnit \div 100) : h \in {5, 50, 1200, 1250, 123456, 100000000}}

InitFormat ==
    /\ fmtScreen \in {"add", "edit"}
    /\ fmtCurrency \in Currency \cup {OtherCurrency}
    /\ \/ fmtValue \in FormatInputs /\ fmtStored = Null
       \/ /\ fmtValue = <<>>
          /\ fmtScreen = "edit"
          /\ \E amount \in StoredAmounts :
                /\ fmtCurrency = "COP" => amount % RawUnit = 0
                /\ fmtStored = Some(amount)
    /\ fmtFirst = NoResult
    /\ fmtAgain = NoResult
    /\ fmtPc = "start"
    /\ PipeIdle
    /\ PanelIdle
    /\ BalanceIdle
    /\ LedgerIdle
    /\ BackendIdle
    /\ SessionIdle

\* onChangeText of the amount field: formatCurrencyInput(text, currency),
\* setAmount(formatted), setAmountRaw(raw).
ChangeAmountText ==
    /\ fmtPc = "start"
    /\ fmtStored = Null
    /\ fmtFirst' = formatCurrencyInput(fmtScreen, fmtValue, fmtCurrency)
    /\ fmtPc' = "formatted"
    /\ UNCHANGED <<fmtScreen, fmtCurrency, fmtValue, fmtStored, fmtAgain,
                   pipeVars, panelVars, balVars, ledgerVars, backendVars, sessionVars>>

\* loadTransaction of the edit screen: setAmountRaw(transactionData.amount)
\* and setAmount of formatCurrencyInput(amount.toString(),
\* transactionData.currency || 'USD'); transaction documents carry no
\* currency field.
LoadTransaction ==
    /\ fmtPc = "start"
    /\ fmtStored # Null
    /\ LET value == NumberToString(fmtStored[1])
       IN  /\ fmtValue' = value
           /\ fmtFirst' = [formatted |-> formatCurrencyInputEdit(value, "USD").formatted,
                           raw |-> fmtStored[1]]
    /\ fmtPc' = "formatted"
    /\ UNCHANGED <<fmtScreen, fmtCurrency, fmtStored, fmtAgain,
                   pipeVars, panelVars, balVars, ledgerVars, backendVars, sessionVars>>

\* The text of the field is handed to onChangeText again.
ReformatAmount ==
    /\ fmtPc = "formatted"
    /\ fmtAgain' = formatCurrencyInput(fmtScreen, fmtFirst.formatted, fmtCurrency)
    /\ fmtPc' = "reparsed"
    /\ UNCHANGED <<fmtScreen, fmtCurrency, fmtValue, fmtStored, fmtFirst,
                   pipeVars, panelVars, balVars, ledgerVars, backendVars, sessionVars>>

NextFormat ==
    \/ ChangeAmountText
    \/ LoadTransaction
    \/ ReformatAmount

SpecFormat == InitFormat /\ [][NextFormat]_vars

\* The number denoted by a string of digits, as the sum of its digits
\* weighted by their place.
RECURSIVE PlaceValue(_)
PlaceValue(digits) ==
    IF digits = <<>> THEN 0
    ELSE DigitValue(digits[1]) * Pow10(Len(digits) - 1) + PlaceValue(Tail(digits))

Str12c5 == <<"1", "2", ",", "5">>
Str12c == <<"1", "2", ",">>
Str1000000 == <<"1", "0", "0", "0", "0", "0", "0">>

\* C16: for EUR, USD and COP, passing the formatted string back through the
\* formatter yields the raw amount that was formatted, both for typed input
\* and for a stored amount the edit screen formats for display.
C16_FormatRoundTrip ==
    (fmtPc = "reparsed" /\ fmtCurrency \in Currency)
        => fmtAgain.raw = fmtFirst.raw

C19_CopIntegerGrouped ==
    (fmtPc # "start" /\ fmtStored = Null /\ fmtCurrency = "COP") =>
        LET digits == OnlyDigits(fmtValue)
            formatted == fmtFirst.formatted
        IN  IF digits = <<>>
            THEN formatted = <<>> /\ fmtFirst.raw = 0
            ELSE /\ fmtFirst.raw = PlaceValue(digits) * RawUnit
                 /\ OnlyDigits(formatted) = DigitsOf(PlaceValue(digits))
                 /\ \A k \in 1..Len(formatted) :
                        IF (Len(formatted) - k + 1) % 4 = 0
                        THEN formatted[k] = "."
                        ELSE IsDigit(formatted[k])

\* Input "1000000" has given raw value 1000000 and "1.000.000".
C19_Witness ==
    /\ fmtPc = "formatted"
    /\ fmtCurrency = "COP"
    /\ fmtValue = Str1000000
    /\ fmtFirst.raw = 1000000 * RawUnit
    /\ fmtFirst.formatted = <<"1", ".", "0", "0", "0", ".", "0", "0", "0">>

\* C20: for a currency other than COP, EUR and USD both screens return the
\* input unmodified as the formatted string and parseFloat of the input, or
\* 0 if it does not parse, as the raw value.
C20_OtherCurrencyPassThrough ==
    (fmtPc # "start" /\ fmtStored = Null /\ fmtCurrency \notin Currency) =>
        /\ fmtFirst.formatted = fmtValue
        /\ fmtFirst.raw = IF parseFloat(fmtValue) = Null THEN 0
                          ELSE parseFloat(fmtValue)[1]

(***************************************************************************)
(* Claims about concurrent calls and failing calls of the services         *)
(* (SpecStore, SpecAccounts).                                              *)
(***************************************************************************)
\* C22: when an account deletion completes successfully, no transaction
\* document of that account is stored any more, also when another member
\* created a transaction in the account while the deletion was in progress.
C22_NoTransactionLeftBehind ==
    [][\A u \in Users :
        ( /\ call[u].op = "deleteAccount"
          /\ call[u].pc = "deleteAccountDoc"
          /\ call'[u].pc = "returned" )
        => {t \in DOMAIN transactionDocs' :
                transactionDocs'[t].accountId = call[u].accountId} = {}]_vars

\* C23: createTransaction is all-or-nothing: when the call throws, the
\* document it handed to addDoc is not stored, also when the caller is a
\* member of the account who is not its owner.
C23_CreateTransactionAllOrNothing ==
    [][\A u \in Users :
        ( /\ call[u].op = "createTransaction"
          /\ call'[u].pc = "threw" )
        => \/ call[u].pc = "addDoc"
           \/ call[u].txId \notin DOMAIN transactionDocs']_vars

(***************************************************************************)
(* SpecJoin: the sessions join a GROUP account of another user, by id and  *)
(* by code, in any interleaving.                                           *)
(***************************************************************************)
\* The owner of the account: a user without a session in this model.
JoinOwner == UserNames[NumUsers + 1]

InitJoin ==
    /\ rulesEnforced \in BOOLEAN
    /\ accounts = (1 :> NewAccount("GROUP", JoinOwner, generateinviteCode(1)))
    /\ call = [u \in Users |-> IdleCall]
    /\ transactionDocs = <<>>
    /\ nextTxId = 1
    /\ BalanceIdle
    /\ LedgerIdle
    /\ UiIdle

NextJoin ==
    \E u \in Users :
        \/ JoinAccountCall(u)
        \/ JoinAccountGet(u)
        \/ JoinByCodeCall(u)
        \/ JoinByCodeQuery(u)
        \/ JoinUpdate(u)
        \/ JoinReread(u)

SpecJoin == InitJoin /\ [][NextJoin]_vars

C25_FailsOnlyWhenAllCandidatesUsed ==
    [][\A u \in Users :
        ( /\ call[u].op = "createAccount"
          /\ call[u].pc = "checkCode"
          /\ call'[u].pc = "threw" )
        => \E id \in DOMAIN accounts :
                accounts[id].inviteCode = call[u].code]_vars

(***************************************************************************)
(* SpecJoinCode: users create accounts, open the account-details screen on *)
(* them and join by code.                                                  *)
(***************************************************************************)
InitJoinCode ==
    /\ rulesEnforced \in BOOLEAN
    /\ accounts = <<>>
    /\ call = [u \in Users |-> IdleCall]
    /\ transactionDocs = <<>>
    /\ nextTxId = 1
    /\ BalanceIdle
    /\ LedgerIdle
    /\ UiIdle

NextJoinCode ==
    \E u \in Users :
        \/ CreateAccountCall(u)
        \/ CheckInviteCode(u)
        \/ CreateAccountAdd(u)
        \/ LoadAccount(u)
        \/ JoinByCodeCall(u)
        \/ JoinByCodeQuery(u)
        \/ JoinUpdate(u)
        \/ JoinReread(u)

SpecJoinCode == InitJoinCode /\ [][NextJoinCode]_vars

\* C29: when the account-details screen holds a GROUP account created by
\* createAccount, the join code it holds for the account is a code under
\* which the query of joinAccountByCode finds that account.
C29_ShownCodeFindsAccount ==
    \A u \in Users :
        ( /\ call[u].op = "loadAccount"
          /\ call[u].pc = "returned"
          /\ call[u].accountId \in DOMAIN accounts
          /\ accounts[call[u].accountId].type = "GROUP" )
        => \E outcome \in QueryByInviteCode(u, call[u].code) :
                call[u].accountId \in outcome.ids

(***************************************************************************)
(* contexts/AuthContext (AuthProvider), app/_layout.tsx (RootLayoutNav)    *)
(* and app/login.tsx: one device.  Firebase Auth hands every change of the *)
(* signed-in user to the onAuthStateChanged listener; the listener's       *)
(* callback and the login / register calls are async functions whose       *)
(* awaits resume in any order.                                             *)
(***************************************************************************)
Routes == {"login", "index", "account"}

nonAuthVars == <<balVars, ledgerVars, backendVars, pipeVars, panelVars, fmtVars,
                 feedVars>>

\* loadUserFromFirestore: getDoc(doc(db, 'users', uid)); the user if the
\* document exists, otherwise null.
loadUserFromFirestore(uid) == IF uid \in userDocs THEN Some(uid) ELSE Null

\* Firebase Auth: the signed-in user becomes `firebaseUser`; a change is
\* queued for the listener.
SignedIn(firebaseUser) ==
    /\ authCurrent' = firebaseUser
    /\ authEvents' = IF authCurrent = firebaseUser THEN authEvents
                     ELSE Append(authEvents, firebaseUser)

\* onAuthStateChanged(auth, async (firebaseUser) => ...) is invoked: with a
\* user it starts loadUserFromFirestore, without one it clears the state.
AuthStateChanged ==
    /\ authEvents # <<>>
    /\ LET firebaseUser == Head(authEvents)
       IN  IF firebaseUser # Null
           THEN /\ authHandlers' = authHandlers \cup
                        {[firebaseUser |-> firebaseUser[1], pc |-> "getDoc",
                          userDoc |-> Null]}
                /\ UNCHANGED <<ctxUser, ctxLoading>>
           ELSE /\ ctxUser' = Null
                /\ ctxLoading' = FALSE
                /\ UNCHANGED authHandlers
    /\ authEvents' = Tail(authEvents)
    /\ UNCHANGED <<authAccounts, authCurrent, userDocs, ctxError, authCall,
                   authCalls, route, nonAuthVars>>

\* The listener's getDoc is answered.
HandlerGetDoc ==
    /\ \E h \in authHandlers :
        /\ h.pc = "getDoc"
        /\ authHandlers' = (authHandlers \ {h}) \cup
                {[h EXCEPT !.pc = "resume",
                           !.userDoc = loadUserFromFirestore(h.firebaseUser)]}
    /\ UNCHANGED <<authAccounts, authCurrent, userDocs, authEvents, ctxUser,
                   ctxLoading, ctxError, authCall, authCalls, route, nonAuthVars>>

\* The listener resumes after its await: setUser(userDoc);
\* setFirebaseUser(firebaseUser); setError(null); setLoading(false).
HandlerResume ==
    /\ \E h \in authHandlers :
        /\ h.pc = "resume"
        /\ ctxUser' = h.userDoc
        /\ authHandlers' = authHandlers \ {h}
    /\ ctxError' = FALSE
    /\ ctxLoading' = FALSE
    /\ UNCHANGED <<authAccounts, authCurrent, userDocs, authEvents, authCall,
                   authCalls, route, nonAuthVars>>

AuthAtRest == authCall.pc = "done"

\* The login screen is shown and past its loading spinner.
LoginScreenShown == route = "login" /\ ~ctxLoading

\* register(username, password) up to its first await; `valid` is the
\* outcome of its two validations.
RegisterCall ==
    /\ AuthAtRest
    /\ LoginScreenShown
    /\ authCalls < MaxAuthCalls
    /\ authCalls' = authCalls + 1
    /\ \E username \in Users, valid \in BOOLEAN :
        /\ authCall' = [op |-> "register",
                        pc |-> IF valid THEN "createUser" ELSE "done",
                        username |-> username, userDoc |-> Null]
        /\ ctxError' = ~valid
    /\ UNCHANGED <<authAccounts, authCurrent, userDocs, authEvents,
                   authHandlers, ctxUser, ctxLoading, route, nonAuthVars>>

\* register: createUserWithEmailAndPassword; auth/email-already-in-use for a
\* registered username.
RegisterCreateUser ==
    /\ authCall.op = "register"
    /\ authCall.pc = "createUser"
    /\ IF authCall.username \in authAccounts
       THEN /\ ctxError' = TRUE
            /\ authCall' = [authCall EXCEPT !.pc = "done"]
            /\ UNCHANGED <<authAccounts, authCurrent, authEvents>>
       ELSE /\ authAccounts' = authAccounts \cup {authCall.username}
            /\ SignedIn(Some(authCall.username))
            /\ authCall' = [authCall EXCEPT !.pc = "setDoc"]
            /\ UNCHANGED ctxError
    /\ UNCHANGED <<userDocs, authHandlers, ctxUser, ctxLoading, authCalls,
                   route, nonAuthVars>>

\* register: createUserDocument, setDoc(doc(db, 'users', uid), userDoc).
RegisterSetDoc ==
    /\ authCall.op = "register"
    /\ authCall.pc = "setDoc"
    /\ userDocs' = userDocs \cup {authCall.username}
    /\ authCall' = [authCall EXCEPT !.pc = "getDoc"]
    /\ UNCHANGED <<authAccounts, authCurrent, authEvents, authHandlers,
                   ctxUser, ctxLoading, ctxError, authCalls, route, nonAuthVars>>

\* login / register: the getDoc of loadUserFromFirestore is answered.
CallGetDoc ==
    /\ authCall.op \in {"login", "register"}
    /\ authCall.pc = "getDoc"
    /\ authCall' = [authCall EXCEPT
                        !.pc = "resume",
                        !.userDoc = loadUserFromFirestore(authCall.username)]
    /\ UNCHANGED <<authAccounts, authCurrent, userDocs, authEvents,
                   authHandlers, ctxUser, ctxLoading, ctxError, authCalls,
                   route, nonAuthVars>>

\* register resumes: if (userDoc) { setUser(userDoc); setError(null) }.
RegisterResume ==
    /\ authCall.op = "register"
    /\ authCall.pc = "resume"
    /\ IF authCall.userDoc # Null
       THEN ctxUser' = authCall.userDoc /\ ctxError' = FALSE
       ELSE UNCHANGED <<ctxUser, ctxError>>
    /\ authCall' = [authCall EXCEPT !.pc = "done"]
    /\ UNCHANGED <<authAccounts, authCurrent, userDocs, authEvents,
                   authHandlers, ctxLoading, authCalls, route, nonAuthVars>>

\* login(username, password) up to its first await.
LoginCall ==
    /\ AuthAtRest
    /\ LoginScreenShown
    /\ authCalls < MaxAuthCalls
    /\ authCalls' = authCalls + 1
    /\ \E username \in Users :
        authCall' = [op |-> "login", pc |-> "signIn",
                     username |-> username, userDoc |-> Null]
    /\ ctxError' = FALSE
    /\ UNCHANGED <<authAccounts, authCurrent, userDocs, authEvents,
                   authHandlers, ctxUser, ctxLoading, route, nonAuthVars>>

\* login: signInWithEmailAndPassword; `passwordOk` is whether the password
\* is the user's.
LoginSignIn ==
    /\ authCall.op = "login"
    /\ authCall.pc = "signIn"
    /\ \E passwordOk \in BOOLEAN :
        IF authCall.username \in authAccounts /\ passwordOk
        THEN /\ SignedIn(Some(authCall.username))
             /\ authCall' = [authCall EXCEPT !.pc = "getDoc"]
             /\ UNCHANGED ctxError
        ELSE /\ ctxError' = TRUE
             /\ authCall' = [authCall EXCEPT !.pc = "done"]
             /\ UNCHANGED <<authCurrent, authEvents>>
    /\ UNCHANGED <<authAccounts, userDocs, authHandlers, ctxUser, ctxLoading,
                   authCalls, route, nonAuthVars>>

\* login resumes: with the document setUser(userDoc), without it
\* signOut(auth) and the error.
LoginResume ==
    /\ authCall.op = "login"
    /\ authCall.pc = "resume"
    /\ IF authCall.userDoc # Null
       THEN /\ ctxUser' = authCall.userDoc
            /\ ctxError' = FALSE
            /\ UNCHANGED <<authCurrent, authEvents>>
       ELSE /\ SignedIn(Null)
            /\ ctxError' = TRUE
            /\ UNCHANGED ctxUser
    /\ authCall' = [authCall EXCEPT !.pc = "done"]
    /\ UNCHANGED <<authAccounts, userDocs, authHandlers, ctxLoading,
                   authCalls, route, nonAuthVars>>

\* HomeScreen: logout() up to its await.
LogoutCall ==
    /\ AuthAtRest
    /\ route = "index"
    /\ ~ctxLoading
    /\ authCalls < MaxAuthCalls
    /\ authCalls' = authCalls + 1
    /\ authCall' = [op |-> "logout", pc |-> "signOut", username |-> "",
                    userDoc |-> Null]
    /\ UNCHANGED <<authAccounts, authCurrent, userDocs, authEvents,
                   authHandlers, ctxUser, ctxLoading, ctxError, route,
                   nonAuthVars>>

\* logout: signOut(auth), then setUser(null); setFirebaseUser(null);
\* setError(null).
LogoutSignOut ==
    /\ authCall.op = "logout"
    /\ authCall.pc = "signOut"
    /\ SignedIn(Null)
    /\ ctxUser' = Null
    /\ ctxError' = FALSE
    /\ authCall' = [authCall EXCEPT !.pc = "done"]
    /\ UNCHANGED <<authAccounts, userDocs, authHandlers, ctxLoading,
                   authCalls, route, nonAuthVars>>

\* Mutant: the guard leaves a user who is not signed in where they are.
GuardTargetWithoutLogin(user, currentSegment) ==
    IF user # Null /\ currentSegment = "login" THEN "index"
    ELSE currentSegment

\* RootLayoutNav, the body of the effect past `if (loading) return`: the
\* route after it.
GuardTarget(user, currentSegment) ==
    LET isLoginRoute == currentSegment = "login"
    IN  IF user = Null
        THEN IF ~isLoginRoute THEN "login" ELSE currentSegment
        ELSE IF isLoginRoute THEN "index" ELSE currentSegment

\* RootLayoutNav: the effect on [user, loading, segments, router] replaces
\* the route.
RouteGuard ==
    /\ ~ctxLoading
    /\ GuardTarget(ctxUser, route) # route
    /\ route' = GuardTarget(ctxUser, route)
    /\ UNCHANGED <<authAccounts, authCurrent, userDocs, authEvents,
                   authHandlers, ctxUser, ctxLoading, ctxError, authCall,
                   authCalls, nonAuthVars>>

\* LoginScreen: if (!loading && user) router.replace('/').
LoginRedirect ==
    /\ route = "login"
    /\ ~ctxLoading
    /\ ctxUser # Null
    /\ route' = "index"
    /\ UNCHANGED <<authAccounts, authCurrent, userDocs, authEvents,
                   authHandlers, ctxUser, ctxLoading, ctxError, authCall,
                   authCalls, nonAuthVars>>

\* The user opens another route: a link or router.push of a screen, or the
\* address bar on the web.
OpenRoute ==
    /\ \E r \in Routes \ {route} : route' = r
    /\ UNCHANGED <<authAccounts, authCurrent, userDocs, authEvents,
                   authHandlers, ctxUser, ctxLoading, ctxError, authCall,
                   authCalls, nonAuthVars>>

(***************************************************************************)
(* SpecAuth: the app starts on any route, with or without a persisted      *)
(* session of the registered user u1; users log in, register and log out.  *)
(***************************************************************************)
InitAuth ==
    /\ authAccounts = {UserNames[1]}
    /\ userDocs \in SUBSET {UserNames[1]}
    /\ authCurrent \in {Null, Some(UserNames[1])}
    /\ authEvents = <<authCurrent>>
    /\ authHandlers = {}
    /\ ctxUser = Null
    /\ ctxLoading = TRUE
    /\ ctxError = FALSE
    /\ authCall = NoAuthCall
    /\ authCalls = 0
    /\ route \in Routes
    /\ BalanceIdle
    /\ LedgerIdle
    /\ BackendIdle
    /\ PipeIdle
    /\ PanelIdle
    /\ FormatIdle
    /\ FeedIdle

NextAuth ==
    \/ AuthStateChanged
    \/ HandlerGetDoc
    \/ HandlerResume
    \/ RegisterCall
    \/ RegisterCreateUser
    \/ RegisterSetDoc
    \/ CallGetDoc
    \/ RegisterResume
    \/ LoginCall
    \/ LoginSignIn
    \/ LoginResume
    \/ LogoutCall
    \/ LogoutSignOut
    \/ RouteGuard
    \/ LoginRedirect
    \/ OpenRoute

SpecAuth == InitAuth /\ [][NextAuth]_vars

\* React runs the effect of RootLayoutNav after every render in which one
\* of its dependencies changed.
SpecAuthFair == SpecAuth /\ WF_vars(RouteGuard)

\* C28: once register has completed without an error, the user of the auth
\* context is not null, and stays so until logout, in whatever order the
\* listener's document load and register's own steps complete.
C28_RegisteredUserStaysSet ==
    ( /\ authCall.op = "register"
      /\ authCall.pc = "done"
      /\ ~ctxError )
    => ctxUser # Null

\* C30: once the auth state has finished loading, a route other than login
\* shown while no user is signed in is replaced by the login route, and the
\* login route shown to a signed-in user is replaced by home: neither
\* situation lasts.
C30_GuardRedirects ==
    /\ (~ctxLoading /\ ctxUser = Null /\ route # "login")
            ~> (route = "login" \/ ctxUser # Null)
    /\ (~ctxLoading /\ ctxUser # Null /\ route = "login")
            ~> (route # "login" \/ ctxUser = Null)

\* After a logout the auth state is loaded, no user is signed in and a
\* route other than login is shown.
C30_Witness ==
    /\ authCall.op = "logout"
    /\ authCall.pc = "done"
    /\ ~ctxLoading
    /\ ctxUser = Null
    /\ route # "login"

(***************************************************************************)
(* services/accounts.ts and services/transactions.ts: the reads and the    *)
(* live queries, as one device uses them.  The signed-in user of the       *)
(* device is Viewer; the other sessions change the data.                   *)
(***************************************************************************)
Viewer == UserNames[NumUsers]

nonFeedVars == <<balVars, ledgerVars, backendVars, pipeVars, panelVars, fmtVars,
                 authVars>>

\* The elements of a set of document ids, ascending: the order in which a
\* query snapshot holds the documents.
RECURSIVE Ascending(_)
Ascending(ids) ==
    IF ids = {} THEN <<>>
    ELSE LET first == CHOOSE id \in ids : \A other \in ids : id <= other
         IN  <<first>> \o Ascending(ids \ {first})

\* where('memberIds', 'array-contains', userId) asked by uid: the rules
\* admit the query only when it asks for the caller's own accounts.
QueryByMember(uid, userId) ==
    IF Permitted(uid = userId)
    THEN [denied |-> FALSE,
          docs |-> {id \in DOMAIN accounts : userId \in Members(accounts[id])}]
    ELSE [denied |-> TRUE, docs |-> {}]

\* calculateAccountBalance(accountId) called by uid: getDocs of the
\* sub-collection and the sum; 0 when the read fails.
BalanceReadBy(uid, accountId) ==
    LET outcome == ReadTransactions(uid, accountId)
        ids == Ascending(outcome.ids)
    IN  IF outcome.denied THEN 0
        ELSE calculateAccountBalance([i \in 1..Len(ids) |-> transactionDocs[ids[i]]])

\* One insertion of the stable sort under (a, b) => bTime - aTime; the
\* accounts are numbered in the order of their creation.
RECURSIVE InsertByCreatedDesc(_, _)
InsertByCreatedDesc(sorted, x) ==
    IF sorted = <<>> THEN <<x>>
    ELSE IF x.id - Head(sorted).id > 0
         THEN <<x>> \o sorted
         ELSE <<Head(sorted)>> \o InsertByCreatedDesc(Tail(sorted), x)

RECURSIVE SortAccountsFrom(_, _, _)
SortAccountsFrom(list, i, sorted) ==
    IF i > Len(list) THEN sorted
    ELSE SortAccountsFrom(list, i + 1, InsertByCreatedDesc(sorted, list[i]))

\* The AccountWithBalance[] computed for the documents `docs` of a snapshot:
\* map with calculateAccountBalance, Promise.all, sort by createdAt
\* descending.  The balance reads are taken at one instant.
AccountsWithBalances(uid, docs) ==
    LET ids == Ascending(docs)
        list == [i \in 1..Len(ids) |->
                    [id |-> ids[i], balance |-> BalanceReadBy(uid, ids[i])]]
    IN  SortAccountsFrom(list, 1, <<>>)

\* callback(list), for the list computed from snapshot `from`.
Called(delivered, from, list) ==
    [calls |-> delivered.calls + 1, from |-> from, list |-> list]

\* The repository holds two copies of the accounts service; a call runs one
\* of them.  The error handler of onSnapshot: callback([]) in
\* services/accounts.ts and in services/transactions.ts, console.error alone
\* in the other copy of the accounts service.
ListenerError(delivered) == Called(delivered, 0, <<>>)

ListenerErrorLogged(delivered) == delivered

\* getUserAccounts: the catch block, `return []` in services/accounts.ts and
\* `throw error` in the other copy.
getUserAccountsCatch(l) == [l EXCEPT !.pc = "returned", !.result = <<>>]

getUserAccountsRethrow(l) == [l EXCEPT !.pc = "threw"]

\* HomeScreen effect: subscribeToUserAccounts(userId, callback).
FeedSubscribe ==
    /\ feedListener.status = "none"
    /\ \E userId \in Users :
        feedListener' = [status |-> "listening", userId |-> userId,
                         accountId |-> 0]
    /\ UNCHANGED <<feedSeen, feedSnapshots, feedHandlers, homeDelivered,
                   txListener, txDelivered, listed, nonFeedVars>>

\* The backend sends the listener a snapshot, the first one or one after a
\* change of the matching documents: the async handler starts and stops at
\* its await of the balances.  With no document there is no read to wait
\* for, and the handler reaches callback(sorted) before any other event.
FeedSnapshot ==
    /\ feedListener.status = "listening"
    /\ feedSnapshots < MaxSnapshots
    /\ LET outcome == QueryByMember(Viewer, feedListener.userId)
           docs == [id \in outcome.docs |-> accounts[id]]
       IN  /\ ~outcome.denied
           /\ feedSeen # Some(docs)
           /\ feedSeen' = Some(docs)
           /\ IF outcome.docs = {}
              THEN /\ homeDelivered' =
                        Called(homeDelivered, feedSnapshots + 1, <<>>)
                   /\ UNCHANGED feedHandlers
              ELSE /\ feedHandlers' = feedHandlers \cup
                        {[seq |-> feedSnapshots + 1, docs |-> outcome.docs]}
                   /\ UNCHANGED homeDelivered
    /\ feedSnapshots' = feedSnapshots + 1
    /\ UNCHANGED <<feedListener, txListener, txDelivered, listed, nonFeedVars>>

\* The handler of a snapshot resumes with the balances: callback(sorted).
FeedHandlerDone ==
    /\ \E h \in feedHandlers :
        /\ feedHandlers' = feedHandlers \ {h}
        /\ homeDelivered' = Called(homeDelivered, h.seq,
                                   AccountsWithBalances(Viewer, h.docs))
    /\ UNCHANGED <<feedListener, feedSeen, feedSnapshots, txListener,
                   txDelivered, listed, nonFeedVars>>

\* The backend refuses the listener's query: the error handler runs and the
\* listener is over.
FeedError ==
    /\ feedListener.status = "listening"
    /\ QueryByMember(Viewer, feedListener.userId).denied
    /\ feedListener' = [feedListener EXCEPT !.status = "failed"]
    /\ homeDelivered' \in {ListenerError(homeDelivered),
                          ListenerErrorLogged(homeDelivered)}
    /\ UNCHANGED <<feedSeen, feedSnapshots, feedHandlers, txListener,
                   txDelivered, listed, nonFeedVars>>

\* HomeScreen effect clean-up: unsubscribe().
FeedUnsubscribe ==
    /\ feedListener.status \in {"listening", "failed"}
    /\ feedListener' = [feedListener EXCEPT !.status = "unsubscribed"]
    /\ UNCHANGED <<feedSeen, feedSnapshots, feedHandlers, homeDelivered,
                   txListener, txDelivered, listed, nonFeedVars>>

\* AccountDetailsScreen effect: subscribeToAccountTransactions(accountId,
\* callback).
TxSubscribe ==
    /\ txListener.status = "none"
    /\ \E accountId \in StoreAccountIds :
        txListener' = [status |-> "listening", userId |-> "",
                       accountId |-> accountId]
    /\ UNCHANGED <<feedListener, feedSeen, feedSnapshots, feedHandlers,
                   homeDelivered, txDelivered, listed, nonFeedVars>>

\* The transactions listener is sent the documents: map, sort, slice,
\* callback(transactions).
TxSnapshot ==
    /\ txListener.status = "listening"
    /\ LET outcome == ReadTransactions(Viewer, txListener.accountId)
           ids == Ascending(outcome.ids)
           transactions ==
                SnapshotTransactions(
                    [i \in 1..Len(ids) |-> transactionDocs[ids[i]]],
                    DefaultLimitCount)
       IN  /\ ~outcome.denied
           /\ txDelivered.calls = 0 \/ txDelivered.list # transactions
           /\ txDelivered' = Called(txDelivered, 1, transactions)
    /\ UNCHANGED <<feedListener, feedSeen, feedSnapshots, feedHandlers,
                   homeDelivered, txListener, listed, nonFeedVars>>

\* The backend refuses the transactions listener: its error handler runs.
TxError ==
    /\ txListener.status = "listening"
    /\ ReadTransactions(Viewer, txListener.accountId).denied
    /\ txListener' = [txListener EXCEPT !.status = "failed"]
    /\ txDelivered' = ListenerError(txDelivered)
    /\ UNCHANGED <<feedListener, feedSeen, feedSnapshots, feedHandlers,
                   homeDelivered, listed, nonFeedVars>>

\* getUserAccounts(userId) up to its getDocs.
GetUserAccountsCall ==
    /\ listed.pc \in {"idle", "returned", "threw"}
    /\ \E userId \in Users :
        listed' = [NotListed EXCEPT !.pc = "getDocs", !.userId = userId]
    /\ UNCHANGED <<feedListener, feedSeen, feedSnapshots, feedHandlers,
                   homeDelivered, txListener, txDelivered, nonFeedVars>>

\* getUserAccounts: getDocs(q) is answered, or fails and the catch block
\* runs.
GetUserAccountsQuery ==
    /\ listed.pc = "getDocs"
    /\ LET outcome == QueryByMember(Viewer, listed.userId)
       IN  IF outcome.denied
           THEN listed' \in {getUserAccountsCatch(listed),
                             getUserAccountsRethrow(listed)}
           ELSE listed' = [listed EXCEPT !.pc = "balances",
                                         !.docs = outcome.docs]
    /\ UNCHANGED <<feedListener, feedSeen, feedSnapshots, feedHandlers,
                   homeDelivered, txListener, txDelivered, nonFeedVars>>

\* getUserAccounts: Promise.all of the balances, the sort and the return.
GetUserAccountsReturn ==
    /\ listed.pc = "balances"
    /\ listed' = [listed EXCEPT
                    !.pc = "returned",
                    !.docs = {},
                    !.result = AccountsWithBalances(Viewer, listed.docs)]
    /\ UNCHANGED <<feedListener, feedSeen, feedSnapshots, feedHandlers,
                   homeDelivered, txListener, txDelivered, nonFeedVars>>

\* AccountDetailsScreen effect clean-up: unsubscribe().
TxUnsubscribe ==
    /\ txListener.status \in {"listening", "failed"}
    /\ txListener' = [txListener EXCEPT !.status = "unsubscribed"]
    /\ UNCHANGED <<feedListener, feedSeen, feedSnapshots, feedHandlers,
                   homeDelivered, txDelivered, listed, nonFeedVars>>

(***************************************************************************)
(* SpecFeed: two GROUP accounts of u1, the first with one INCOME of 1; the  *)
(* other users' sessions add members while the device of Viewer lists its   *)
(* accounts, reads transactions and listens to both live queries.          *)
(***************************************************************************)
InitFeed ==
    /\ rulesEnforced \in BOOLEAN
    /\ accounts = [id \in AccountIds |->
                    NewAccount("GROUP", UserNames[1], generateinviteCode(id))]
    /\ call = [u \in Users |-> IdleCall]
    /\ transactionDocs =
            (1 :> NewTransaction([accountId |-> 1, type |-> "INCOME",
                                  amount |-> 1, date |-> NoDate],
                                 UserNames[1], 1))
    /\ nextTxId = 2
    /\ BalanceIdle
    /\ LedgerIdle
    /\ PipeIdle
    /\ PanelIdle
    /\ FormatIdle
    /\ AuthIdle
    /\ FeedIdle

NextFeed ==
    \/ \E u \in Users \ {Viewer} :
        \/ JoinAccountCall(u)
        \/ JoinAccountGet(u)
        \/ JoinUpdate(u)
        \/ JoinReread(u)
    \/ GetAccountTransactions(Viewer)
    \/ GetUserAccountsCall
    \/ GetUserAccountsQuery
    \/ GetUserAccountsReturn
    \/ FeedSubscribe
    \/ FeedSnapshot
    \/ FeedHandlerDone
    \/ FeedError
    \/ FeedUnsubscribe
    \/ TxSubscribe
    \/ TxSnapshot
    \/ TxError
    \/ TxUnsubscribe

SpecFeed == InitFeed /\ [][NextFeed]_vars

\* C21: a read that the backend refuses never throws and gives no data:
\* getAccountTransactions and getUserAccounts return an empty list, and the
\* error handler of the accounts listener and of the transactions listener
\* calls the callback with an empty list.
C21_DeniedReadsGiveNoData ==
    [][/\ (listed.pc = "getDocs" /\ QueryByMember(Viewer, listed.userId).denied)
            => listed' = getUserAccountsCatch(listed)
       /\ ( /\ call'[Viewer].op = "getAccountTransactions"
            /\ call'[Viewer] # call[Viewer]
            /\ ReadTransactions(Viewer, call'[Viewer].accountId).denied )
            => (call'[Viewer].pc = "returned" /\ call'[Viewer].read = {})
       /\ (feedListener.status = "listening" /\ feedListener'.status = "failed")
            => homeDelivered' = Called(homeDelivered, 0, <<>>)
       /\ (txListener.status = "listening" /\ txListener'.status = "failed")
            => txDelivered' = Called(txDelivered, 0, <<>>)]_vars

\* The part of C21 about services/transactions.ts, of which there is one
\* copy: getAccountTransactions and the transactions listener.
C21_DeniedTransactionReads ==
    [][/\ ( /\ call'[Viewer].op = "getAccountTransactions"
            /\ call'[Viewer] # call[Viewer]
            /\ ReadTransactions(Viewer, call'[Viewer].accountId).denied )
            => (call'[Viewer].pc = "returned" /\ call'[Viewer].read = {})
       /\ (txListener.status = "listening" /\ txListener'.status = "failed")
            => txDelivered' = Called(txDelivered, 0, <<>>)]_vars

\* C26: a call of the accounts callback never replaces the list of a newer
\* snapshot by the list computed for an older one.
C26_NewestSnapshotWins ==
    [][(homeDelivered'.calls > homeDelivered.calls /\ homeDelivered'.from # 0)
            => homeDelivered'.from >= homeDelivered.from]_vars

\* C27: once unsubscribe() has been called on the accounts listener, the
\* callback is not called again.
C27_NoCallbackAfterUnsubscribe ==
    [][feedListener.status = "unsubscribed"
            => homeDelivered'.calls = homeDelivered.calls]_vars

====
